---- MODULE Spec2Model ----
(***************************************************************************)
(* Wind-load engine of ZondaPro (CIRSOC 102-2005): isolated-roof           *)
(* coefficients, topographic factor, gust factor, exposure coefficient,    *)
(* tributary-area interpolation and pressure assembly.                     *)
(*                                                                         *)
(* Real numbers are fixed-point integers: coefficients, factors and        *)
(* pressures are in ten-thousandths; the units of angles, lengths and      *)
(* areas are stated at the head of each section.                           *)
(***************************************************************************)
EXTENDS Integers, Sequences, FiniteSets, TLC

VARIABLES
    cubierta_aislada,   \* the cp.aisladas.CubiertaAislada being constructed
    topografia,         \* a factores.Topografia: its attributes and its cached factor
    rafaga,             \* a factores.Rafaga: its attributes and its cached properties
    presiones_base,     \* a presiones.base.PresionesBase: its attributes and last read
    cp_componentes,     \* a cp.edificio.CubiertaComponentes: attributes, cached properties
    presion,            \* the last application of presiones.edificio.presion_minima
    presiones_edificio, \* a pressure builder of presiones.edificio with its cp object
    edificio,           \* a geometria.Edificio with its geometria.Cubierta
    agregado,           \* a Paredes, Cubierta or Alero of cp.edificio or presiones.edificio
    cartel,             \* a geometria.Cartel and the cp.cartel.Cartel made from it
    cubierta_sprfv      \* the cp.edificio.CubiertaSprfvMetodoDireccional object

vars == << cubierta_aislada, topografia, rafaga, presiones_base,
           cp_componentes, presion, presiones_edificio, edificio, agregado,
           cartel, cubierta_sprfv >>

(***************************************************************************)
(* Fixed-point arithmetic.  A real x is the integer floor(x * Escala).     *)
(* Every operator keeps its intermediate products below 2^31.              *)
(***************************************************************************)
Escala == 10^4

Abs(n) == IF n < 0 THEN 0 - n ELSE n

Signo(n) == IF n > 0 THEN 1 ELSE IF n < 0 THEN 0 - 1 ELSE 0

Max(a, b) == IF a >= b THEN a ELSE b

Min(a, b) == IF a <= b THEN a ELSE b

\* floor(a * b / c) for a >= 0, 0 <= b, c > 0, without forming a * b when a is large.
MulDiv(a, b, c) == (a \div c) * b + ((a % c) * b) \div c

\* Whether a * b is not a multiple of c (same arguments as MulDiv).
MulDivResto(a, b, c) == IF ((a % c) * b) % c = 0 THEN 0 ELSE 1

\* floor(a * b / c) for integers a, b of either sign and c > 0.
MulDivSigno(a, b, c) ==
    IF Signo(a) * Signo(b) >= 0
    THEN MulDiv(Abs(a), Abs(b), c)
    ELSE 0 - (MulDiv(Abs(a), Abs(b), c) + MulDivResto(Abs(a), Abs(b), c))

\* floor(a * b / Escala) for a, b >= 0 of any size whose quotient fits.
MulEscala(a, b) ==
    (a \div Escala) * (b \div Escala) * Escala
    + (a \div Escala) * (b % Escala)
    + (a % Escala) * (b \div Escala)
    + ((a % Escala) * (b % Escala)) \div Escala

\* x * y of two fixed-point numbers (floor).
MulFx(x, y) ==
    IF Signo(x) * Signo(y) >= 0
    THEN MulEscala(Abs(x), Abs(y))
    ELSE 0 - (MulEscala(Abs(x), Abs(y))
              + (IF ((Abs(x) % Escala) * (Abs(y) % Escala)) % Escala = 0 THEN 0 ELSE 1))

\* floor(a * 10^n / b) for a >= 0, b > 0, by long division.
RECURSIVE DivLarga(_, _, _, _)
DivLarga(q, r, b, n) ==
    IF n = 0 THEN q ELSE DivLarga(10 * q + (10 * r) \div b, (10 * r) % b, b, n - 1)

\* x / y of two fixed-point numbers, x >= 0 and y > 0.
DivFx(x, y) == DivLarga(x \div y, x % y, y, 4)

\* ln(f) for 1 <= f < 2: 2 * atanh((f - 1) / (f + 1)), five terms.
LnMantisa(f) ==
    LET y  == ((f - Escala) * Escala) \div (f + Escala)
        y2 == (y * y) \div Escala
        t3 == (y * y2) \div Escala
        t5 == (t3 * y2) \div Escala
        t7 == (t5 * y2) \div Escala
        t9 == (t7 * y2) \div Escala
    IN 2 * (y + t3 \div 3 + t5 \div 5 + t7 \div 7 + t9 \div 9)

\* ln(x) for x > 0; 6931 is ln 2.
RECURSIVE LnFx(_)
LnFx(x) ==
    IF x >= 2 * Escala THEN 6931 + LnFx(x \div 2)
    ELSE IF x < Escala THEN LnFx(2 * x) - 6931
    ELSE LnMantisa(x)

\* e^r for 0 <= r < ln 2, eight terms of the series.
ExpMantisa(r) ==
    LET t2 == (r * r) \div (2 * Escala)
        t3 == (t2 * r) \div (3 * Escala)
        t4 == (t3 * r) \div (4 * Escala)
        t5 == (t4 * r) \div (5 * Escala)
        t6 == (t5 * r) \div (6 * Escala)
        t7 == (t6 * r) \div (7 * Escala)
    IN Escala + r + t2 + t3 + t4 + t5 + t6 + t7

RECURSIVE Pow2(_)
Pow2(k) == IF k <= 0 THEN 1 ELSE 2 * Pow2(k - 1)

\* e^t for any t: t = k * ln 2 + r with 0 <= r < ln 2.
ExpFx(t) ==
    LET k == t \div 6931
        m == ExpMantisa(t - k * 6931)
    IN IF k >= 0 THEN m * Pow2(k)
       ELSE IF k < 0 - 30 THEN 0
       ELSE m \div Pow2(0 - k)

\* x ^ (num / den) for x >= 0, num > 0 and den > 0.
PowFx(x, num, den) ==
    IF x = 0 THEN 0
    ELSE LET l == LnFx(x)
         IN ExpFx(MulDivSigno(l, num, den))

\* The square root of x >= 0.
RaizFx(x) == IF x = 0 THEN 0 ELSE PowFx(x, 1, 2)

(***************************************************************************)
(* Enumerations (sse102/enums.py)                                          *)
(***************************************************************************)
TipoCubierta == {"plana", "un agua", "dos aguas"}

PosicionBloqueoCubierta == {"alero bajo", "alero alto"}

CategoriaExposicion == {"A", "B", "C", "D"}

TipoTerrenoTopografia ==
    {"loma bidimensional", "escarpa bidimensional", "colina tridimensional"}

DireccionTopografia == {"barlovento", "sotavento"}

Flexibilidad == {"rigida", "flexible"}

CategoriaEstructura == {"I", "II", "III", "IV"}

(***************************************************************************)
(* The objects before their construction.                                  *)
(***************************************************************************)
SinLectura == [propiedad |-> "ninguna", resultado |-> "ninguno", evaluadas |-> {}]

SinValor == [evaluado |-> FALSE, valor |-> 0]

SinCubiertaAislada ==
    [resultado |-> "ninguno", tipo_cubierta |-> "plana", angulo |-> 0,
     relacion_bloqueo |-> 0, posicion_bloqueo |-> "alero bajo",
     valores |-> [evaluado |-> FALSE, valor |-> << >>]]

SinFactor == [evaluado |-> FALSE, kzt |-> << >>]

SinParametrosTopografia ==
    [evaluado |-> FALSE, lh |-> 0, k1 |-> 0, k2 |-> 0, k3 |-> << >>]

SinTopografia ==
    [estado |-> "ninguno", categoria_exp |-> "A", considerar_topografia |-> FALSE,
     tipo_terreno |-> "loma bidimensional", altura_terreno |-> 0,
     distancia_cresta |-> 0, distancia_barlovento_sotavento |-> 0,
     direccion |-> "barlovento", alturas |-> [escalar |-> TRUE, z |-> << 5 >>],
     parametros |-> SinParametrosTopografia, factor |-> SinFactor,
     lectura |-> SinLectura]

SinParametrosRafaga ==
    [evaluado |-> FALSE, z |-> 0, iz |-> 0, lz |-> 0, gr |-> 0, r |-> 0]

SinRafaga ==
    [estado |-> "ninguno", ancho |-> 0, longitud |-> 0, altura |-> 0,
     altura_rafaga |-> 0, velocidad |-> 0, frecuencia |-> 0, beta |-> 0,
     flexibilidad |-> "rigida", factor_g_simplificado |-> FALSE,
     categoria_exp |-> "A", parametros |-> SinParametrosRafaga,
     factor_q |-> SinValor, factor |-> SinValor, lectura |-> SinLectura]

SinPresionesBase ==
    [estado |-> "ninguno", alturas |-> << >>, categoria |-> "I", velocidad |-> 0,
     alfa |-> 50, zg |-> 457, factor_topografico |-> << >>,
     factor_direccionalidad |-> 0, categoria_exp |-> "A", caso |-> 2,
     altura_limite |-> [evaluado |-> FALSE, valor |-> 0],
     factor_importancia |-> [evaluado |-> FALSE, valor |-> 0],
     lectura |-> SinLectura, leido |-> << >>]

SinComponentes == [ninguno |-> TRUE, areas |-> << >>]

SinCpComponentes ==
    [estado |-> "ninguno", ancho |-> 0, longitud |-> 0, altura_media |-> 0,
     angulo |-> 0, tipo_cubierta |-> "plana", parapeto |-> 0, es_alero |-> FALSE,
     componentes |-> SinComponentes,
     referencia |-> [evaluado |-> FALSE, valor |-> ""],
     valores |-> [evaluado |-> FALSE, ninguno |-> TRUE, valor |-> << >>],
     lectura |-> SinLectura]

SinPresion == [estado |-> "ninguno", presion |-> 0, resultado |-> 0]

\* An optional argument left at None, or given.
Ninguno == [ninguno |-> TRUE, valor |-> 0]

Algun(v) == [ninguno |-> FALSE, valor |-> v]

SinCp == [referencia |-> "", resultado |-> "ok", ninguno |-> TRUE, valores |-> << >>]

SinPresionesEdificio ==
    [estado |-> "ninguno", clase |-> "CubiertaSprfvMetodoDireccional",
     alturas |-> << >>, altura_media |-> 0, altura_alero |-> 0,
     tipo_cubierta |-> "plana", categoria |-> "I", velocidad |-> 0,
     alfa |-> 50, zg |-> 457, factor_topografico |-> << >>,
     factor_direccionalidad |-> 0, cerramiento |-> "abierto", cp |-> SinCp,
     categoria_exp |-> "A", reducir_gcpi |-> FALSE, aberturas_totales |-> Ninguno,
     volumen_interno |-> Ninguno, factores_rafaga |-> [paralelo |-> 0, normal |-> 0],
     bool_indices_altura_media |-> << >>, bool_indices_alero |-> << >>,
     parcial |-> [presion_velocidad |-> 0], altura_limite |-> SinValor,
     factor_importancia |-> SinValor, factor_reduccion_gcpi |-> SinValor,
     gcpi |-> SinValor,
     valores |-> [evaluado |-> FALSE, ninguno |-> TRUE, presiones |-> << >>],
     lectura |-> SinLectura]

(***************************************************************************)
(* sse102/cirsoc/factores.py : Topografia                                  *)
(* Lengths are whole metres; k1, k2, k3 and the factor are fixed-point.    *)
(***************************************************************************)
\* Feature heights tried: 0, 5, ..., 5 * MaxAlturaTerreno metres.
MaxAlturaTerreno == 5

\* Crest distances tried: 0, 5, ..., 5 * MaxDistanciaCresta metres.
MaxDistanciaCresta == 6

\* Along-wind distances tried: 0, 20, ..., 20 * MaxDistanciaViento metres.
MaxDistanciaViento == 3

\* Heights requested: 5, 10, ..., 5 * MaxAlturas metres, as a scalar or as an array.
MaxAlturas == 2

AlturasTerreno == {5 * k : k \in 0 .. MaxAlturaTerreno}

DistanciasCresta == {5 * k : k \in 0 .. MaxDistanciaCresta}

DistanciasViento == {20 * k : k \in 0 .. MaxDistanciaViento}

\* `alturas` is a float (escalar) or a numpy array; z holds its entries.
AlturasTopografia ==
    {[escalar |-> TRUE, z |-> << 5 * k >>] : k \in 1 .. MaxAlturas}
    \cup {[escalar |-> FALSE, z |-> [i \in 1 .. n |-> 5 * i]] : n \in 1 .. MaxAlturas}

\* altura_terreno / distancia_cresta >= 0.2 for floats: "ZeroDivisionError" when
\* the divisor is 0, else "True" or "False".
RelacionAlturaDistancia(altura_terreno, distancia_cresta) ==
    IF distancia_cresta = 0 THEN "ZeroDivisionError"
    ELSE IF distancia_cresta > 0
    THEN (IF 5 * altura_terreno >= distancia_cresta THEN "True" ELSE "False")
    ELSE (IF 5 * altura_terreno <= distancia_cresta THEN "True" ELSE "False")

\* Mutant: the 5 m threshold of exposures C and D is applied to every exposure.
topografia_considerada_UmbralUnico(t) ==
    IF ~t.considerar_topografia THEN "False"
    ELSE LET relacion == RelacionAlturaDistancia(t.altura_terreno, t.distancia_cresta)
         IN IF relacion = "ZeroDivisionError" THEN relacion
            ELSE IF relacion = "True" /\ t.altura_terreno > 5
            THEN "True"
            ELSE "False"

\* Topografia.topografia_considerada: "True", "False" or the exception raised.
topografia_considerada(t) ==
    IF ~t.considerar_topografia THEN "False"
    ELSE LET relacion == RelacionAlturaDistancia(t.altura_terreno, t.distancia_cresta)
         IN IF relacion = "ZeroDivisionError" THEN relacion
            ELSE IF relacion = "True"
                    /\ \/ t.categoria_exp \in {"A", "B"} /\ t.altura_terreno > 20
                       \/ t.categoria_exp \in {"C", "D"} /\ t.altura_terreno > 5
            THEN "True"
            ELSE "False"

\* CIRSOC 102-2005 Fig. 2: factor_k in hundredths.
FactorK(tipo_terreno, categoria_exp) ==
    CASE tipo_terreno = "loma bidimensional" ->
            (CASE categoria_exp \in {"A", "B"} -> 130
               [] categoria_exp = "C" -> 145
               [] categoria_exp = "D" -> 155)
      [] tipo_terreno = "escarpa bidimensional" ->
            (CASE categoria_exp \in {"A", "B"} -> 75
               [] categoria_exp = "C" -> 85
               [] categoria_exp = "D" -> 95)
      [] tipo_terreno = "colina tridimensional" ->
            (CASE categoria_exp \in {"A", "B"} -> 95
               [] categoria_exp = "C" -> 105
               [] categoria_exp = "D" -> 115)

\* gamma in tenths.
Gamma(tipo_terreno) ==
    CASE tipo_terreno = "loma bidimensional" -> 30
      [] tipo_terreno = "escarpa bidimensional" -> 25
      [] tipo_terreno = "colina tridimensional" -> 40

\* mu in tenths.
Mu(tipo_terreno, direccion) ==
    IF tipo_terreno = "escarpa bidimensional" /\ direccion = "sotavento" THEN 40 ELSE 15

\* Topografia.parametros (lh > 0 whenever it is evaluated with altura_terreno > 0).
parametros_topografia(t) ==
    LET lh == Max(t.distancia_cresta, 2 * t.altura_terreno)
        k_factor == FactorK(t.tipo_terreno, t.categoria_exp)
        gamma == Gamma(t.tipo_terreno)
        mu == Mu(t.tipo_terreno, t.direccion)
    IN [evaluado |-> TRUE,
        lh |-> lh,
        k1 |-> (k_factor * 100 * t.altura_terreno) \div lh,
        k2 |-> Escala - MulDivSigno(t.distancia_barlovento_sotavento * 10, Escala, mu * lh),
        k3 |-> [i \in 1 .. Len(t.alturas.z) |->
                  ExpFx(0 - ((gamma * t.alturas.z[i] * Escala) \div (10 * lh)))]]

\* (1 + k1 * k2 * k3) ** 2 at one height.
Kzt(k1, k2, k3) ==
    LET suma == Escala + MulFx(MulFx(k1, k2), k3)
    IN (suma * suma) \div Escala

\* Topografia.factor evaluated on object t: the object afterwards (caches
\* filled) and the outcome of the evaluation.
factor_topografia(t) ==
    LET considerada == topografia_considerada(t)
    IN IF considerada = "ZeroDivisionError"
       THEN [t EXCEPT !.lectura = [propiedad |-> "factor",
                                   resultado |-> "ZeroDivisionError",
                                   evaluadas |-> {}]]
       ELSE IF considerada = "False"
       THEN [t EXCEPT
               !.factor = [evaluado |-> TRUE,
                           kzt |-> [i \in 1 .. Len(t.alturas.z) |-> Escala]],
               !.lectura = [propiedad |-> "factor", resultado |-> "ok",
                            evaluadas |-> {"factor"}]]
       ELSE LET p == IF t.parametros.evaluado THEN t.parametros
                     ELSE parametros_topografia(t)
            IN [t EXCEPT
                  !.parametros = p,
                  !.factor = [evaluado |-> TRUE,
                              kzt |-> [i \in 1 .. Len(t.alturas.z) |->
                                         Kzt(p.k1, p.k2, p.k3[i])]],
                  !.lectura = [propiedad |-> "factor", resultado |-> "ok",
                               evaluadas |-> IF t.parametros.evaluado
                                             THEN {"factor"}
                                             ELSE {"factor", "parametros"}]]

\* Topografia(categoria_exp, considerar_topografia, tipo_terreno, altura_terreno,
\*            distancia_cresta, distancia_barlovento_sotavento, direccion, alturas)
NuevaTopografia ==
    /\ topografia.estado = "ninguno"
    /\ \E c \in CategoriaExposicion, considerar \in BOOLEAN,
          tt \in TipoTerrenoTopografia, h \in AlturasTerreno,
          d \in DistanciasCresta, x \in DistanciasViento,
          dir \in DireccionTopografia, zs \in AlturasTopografia :
        topografia' =
            [estado |-> "construida", categoria_exp |-> c,
             considerar_topografia |-> considerar, tipo_terreno |-> tt,
             altura_terreno |-> h, distancia_cresta |-> d,
             distancia_barlovento_sotavento |-> x, direccion |-> dir,
             alturas |-> zs, parametros |-> SinParametrosTopografia,
             factor |-> SinFactor, lectura |-> SinLectura]
    /\ UNCHANGED << cubierta_aislada, rafaga, presiones_base,
                    cp_componentes, presion, presiones_edificio, edificio,
                    agregado, cartel, cubierta_sprfv >>

\* Reading the cached property `factor`: the first successful read evaluates
\* and stores it, later reads return the stored value.
LeerFactorTopografia ==
    /\ topografia.estado = "construida"
    /\ topografia' =
          IF topografia.factor.evaluado
          THEN [topografia EXCEPT !.lectura = [propiedad |-> "factor",
                                               resultado |-> "ok",
                                               evaluadas |-> {}]]
          ELSE factor_topografia(topografia)
    /\ UNCHANGED << cubierta_aislada, rafaga, presiones_base,
                    cp_componentes, presion, presiones_edificio, edificio,
                    agregado, cartel, cubierta_sprfv >>

(***************************************************************************)
(* sse102/cirsoc/factores.py : Rafaga                                      *)
(* ancho, longitud, altura and velocidad are whole metres (m/s);           *)
(* altura_rafaga is in tenths of a metre, frecuencia in tenths of a hertz, *)
(* beta in hundredths.  Derived values are fixed-point.                    *)
(***************************************************************************)
\* Widths tried: 10, ..., 10 * MaxAncho.
MaxAncho == 2

\* Lengths tried: 20, ..., 20 * MaxLongitud.
MaxLongitud == 2

\* Heights tried: 10, ..., 10 * MaxAltura; gust heights 0, 6, ..., 6 * MaxAltura.
MaxAltura == 2

\* Wind speeds tried: 0, 15, ..., 15 * MaxVelocidad.
MaxVelocidad == 3

\* Natural frequencies tried: 0, 0.5, ..., 0.5 * MaxFrecuencia.
MaxFrecuencia == 2

\* Damping ratios tried: 0, 0.01, ..., 0.01 * MaxBeta.
MaxBeta == 2

\* _constantes_exposicion: alfa in tenths, zg, alpha_bar and ep_bar as
\* fractions, b_bar and c in hundredths, le, zmin in tenths of a metre.
ConstantesExposicion(categoria_exp) ==
    CASE categoria_exp = "A" ->
            [alfa |-> 50, zg |-> 457, alpha_bar |-> << 1, 3 >>, b_bar |-> 30,
             c |-> 45, le |-> 55, ep_bar |-> << 1, 2 >>, zmin |-> 183]
      [] categoria_exp = "B" ->
            [alfa |-> 70, zg |-> 366, alpha_bar |-> << 1, 4 >>, b_bar |-> 45,
             c |-> 30, le |-> 98, ep_bar |-> << 1, 3 >>, zmin |-> 92]
      [] categoria_exp = "C" ->
            [alfa |-> 95, zg |-> 274, alpha_bar |-> << 2, 13 >>, b_bar |-> 65,
             c |-> 20, le |-> 152, ep_bar |-> << 1, 5 >>, zmin |-> 46]
      [] categoria_exp = "D" ->
            [alfa |-> 115, zg |-> 213, alpha_bar |-> << 1, 9 >>, b_bar |-> 80,
             c |-> 15, le |-> 198, ep_bar |-> << 1, 8 >>, zmin |-> 21]

\* 1 / j - (1 - e^(-2j)) / (2 j^2) if j > 0 else 1
FactorRi(j) ==
    IF j > 0
    THEN DivFx(Escala, j) - DivFx(DivFx(Escala - ExpFx(0 - 2 * j), j), 2 * j)
    ELSE Escala

\* The exception Rafaga.parametros raises, or "ok".  Only the flexible branch can
\* raise: math.log(0), the division by vz = 0 and the division by beta = 0.
ErrorParametrosRafaga(r) ==
    IF r.flexibilidad # "flexible" THEN "ok"
    ELSE IF r.frecuencia <= 0 THEN "ValueError"
    ELSE IF r.velocidad = 0 THEN "ZeroDivisionError"
    ELSE IF r.beta = 0 THEN "ZeroDivisionError"
    ELSE "ok"

\* Rafaga.parametros, when it does not raise.
parametros_rafaga(r) ==
    LET k   == ConstantesExposicion(r.categoria_exp)
        z   == Max(r.altura_rafaga, k.zmin)
        iz  == (k.c * PowFx(DivFx(10 * Escala, z * 1000), 1, 6)) \div 100
        lz  == k.le * PowFx(z * 100, k.ep_bar[1], k.ep_bar[2])
    IN IF r.flexibilidad = "flexible"
       THEN LET raiz == RaizFx(2 * LnFx(360 * r.frecuencia * Escala))
                gr == raiz + DivFx(5770, raiz)
                vz == ((k.b_bar * PowFx(z * 100, k.alpha_bar[1], k.alpha_bar[2]))
                          \div 100) * r.velocidad
                n1 == DivFx((r.frecuencia * lz) \div 10, vz)
                rn == DivFx(MulFx(74700, n1), PowFx(Escala + MulFx(103000, n1), 5, 3))
                nh == DivFx(46 * r.frecuencia * r.altura * 100, vz)
                nb == DivFx(46 * r.frecuencia * r.ancho * 100, vz)
                nl == DivFx(154 * r.frecuencia * r.longitud * 100, vz)
                rh == FactorRi(nh)
                rb == FactorRi(nb)
                rl == FactorRi(nl)
            IN [evaluado |-> TRUE, z |-> z, iz |-> iz, lz |-> lz, gr |-> gr,
                r |-> RaizFx(DivFx(MulFx(MulFx(MulFx(rn, rh), rb),
                                         5300 + MulFx(4700, rl)),
                                   r.beta * 100))]
       ELSE [evaluado |-> TRUE, z |-> z, iz |-> iz, lz |-> lz, gr |-> 0, r |-> 0]

\* Rafaga.factor_q, given the parameters.
factor_q(r, p) ==
    RaizFx(DivFx(Escala,
                 Escala + MulFx(6300,
                                PowFx(DivFx((r.longitud + r.altura) * Escala, p.lz),
                                      63, 100))))

\* Rafaga._rigida
Rigida(p, q) ==
    MulFx(DivFx(Escala + MulFx(57800, MulFx(p.iz, q)), Escala + MulFx(57800, p.iz)),
          9250)

\* Rafaga._flexible
Flexible(p, q) ==
    LET a == MulFx(34000, q)
        b == MulFx(p.gr, p.r)
    IN MulFx(DivFx(Escala + MulFx(17000, MulFx(p.iz, RaizFx(MulFx(a, a) + MulFx(b, b)))),
                   Escala + MulFx(57800, p.iz)),
             9250)

\* Rafaga.factor evaluated with the simplified flag ignored: parametros, then
\* factor_q, then _flexible or _rigida; each cached property evaluated is stored.
factor_rafaga_completo(r) ==
    LET error == ErrorParametrosRafaga(r)
    IN IF ~r.parametros.evaluado /\ error # "ok"
       THEN [r EXCEPT !.lectura = [propiedad |-> "factor", resultado |-> error,
                                   evaluadas |-> {}]]
       ELSE LET p == IF r.parametros.evaluado THEN r.parametros
                     ELSE parametros_rafaga(r)
                q == IF r.factor_q.evaluado THEN r.factor_q.valor
                     ELSE factor_q(r, p)
            IN [r EXCEPT
                  !.parametros = p,
                  !.factor_q = [evaluado |-> TRUE, valor |-> q],
                  !.factor = [evaluado |-> TRUE,
                              valor |-> IF r.flexibilidad = "flexible"
                                        THEN Flexible(p, q) ELSE Rigida(p, q)],
                  !.lectura = [propiedad |-> "factor", resultado |-> "ok",
                               evaluadas |->
                                   {"factor"}
                                   \cup (IF r.parametros.evaluado THEN {}
                                         ELSE {"parametros"})
                                   \cup (IF r.factor_q.evaluado THEN {}
                                         ELSE {"factor_q"})]]

\* Mutant: the gust factor is computed first and the simplified value replaces
\* it afterwards.
factor_rafaga_SimplificadoAlFinal(r) ==
    LET completo == factor_rafaga_completo(r)
    IN IF r.factor_g_simplificado /\ completo.lectura.resultado = "ok"
       THEN [completo EXCEPT !.factor = [evaluado |-> TRUE, valor |-> 8500]]
       ELSE completo

\* Rafaga.factor evaluated on object r: the object afterwards and the outcome.
factor_rafaga(r) ==
    IF r.factor_g_simplificado
    THEN [r EXCEPT !.factor = [evaluado |-> TRUE, valor |-> 8500],
                   !.lectura = [propiedad |-> "factor", resultado |-> "ok",
                                evaluadas |-> {"factor"}]]
    ELSE factor_rafaga_completo(r)

\* Rafaga(ancho, longitud, altura, altura_rafaga, velocidad, frecuencia, beta,
\*        flexibilidad, factor_g_simplificado, categoria_exp)
NuevaRafaga ==
    /\ rafaga.estado = "ninguno"
    /\ \E b \in 1 .. MaxAncho, l \in 1 .. MaxLongitud, h \in 1 .. MaxAltura,
          hr \in 0 .. MaxAltura, v \in 0 .. MaxVelocidad, f \in 0 .. MaxFrecuencia,
          beta \in 0 .. MaxBeta, flex \in Flexibilidad, simplificado \in BOOLEAN,
          c \in CategoriaExposicion :
        rafaga' =
            [estado |-> "construida", ancho |-> 10 * b, longitud |-> 20 * l,
             altura |-> 10 * h, altura_rafaga |-> 60 * hr, velocidad |-> 15 * v,
             frecuencia |-> 5 * f, beta |-> beta, flexibilidad |-> flex,
             factor_g_simplificado |-> simplificado, categoria_exp |-> c,
             parametros |-> SinParametrosRafaga, factor_q |-> SinValor,
             factor |-> SinValor, lectura |-> SinLectura]
    /\ UNCHANGED << cubierta_aislada, topografia, presiones_base,
                    cp_componentes, presion, presiones_edificio, edificio,
                    agregado, cartel, cubierta_sprfv >>

\* Reading the cached property `factor`.
LeerFactorRafaga ==
    /\ rafaga.estado = "construida"
    /\ rafaga' =
          IF rafaga.factor.evaluado
          THEN [rafaga EXCEPT !.lectura = [propiedad |-> "factor",
                                           resultado |-> "ok",
                                           evaluadas |-> {}]]
          ELSE factor_rafaga(rafaga)
    /\ UNCHANGED << cubierta_aislada, topografia, presiones_base,
                    cp_componentes, presion, presiones_edificio, edificio,
                    agregado, cartel, cubierta_sprfv >>

(***************************************************************************)
(* sse102/cirsoc/presiones/base.py : PresionesBase                         *)
(* Heights and the wind speed are whole metres (m/s); Kz, Kzt, the factors *)
(* and the velocity pressures (N/m2) are fixed-point.                      *)
(***************************************************************************)
\* Heights tried for the exposure coefficient: 0, 1, ..., MaxAlturaKz metres.
MaxAlturaKz == 32

\* Mutant: the height limit caps the height instead of flooring it.
kz_LimiteSuperior(altura, altura_limite, alfa, zg) ==
    (201 * PowFx((Min(altura, altura_limite) * Escala) \div zg, 20, alfa)) \div 100

\* PresionesBase._kz: 2.01 * (max(altura, altura_limite) / zg) ** (2 / alfa),
\* alfa in tenths.
kz(altura, altura_limite, alfa, zg) ==
    (201 * PowFx((Max(altura, altura_limite) * Escala) \div zg, 20, alfa)) \div 100

\* PresionesBase._calcular_altura_limite
calcular_altura_limite(categoria_exp, caso) ==
    IF caso = 1 /\ categoria_exp = "A" THEN 30
    ELSE IF caso = 1 /\ categoria_exp = "B" THEN 10
    ELSE 5

\* PresionesBase.factor_importancia
FactorImportancia(categoria) ==
    CASE categoria = "I" -> 8700
      [] categoria = "II" -> 10000
      [] categoria \in {"III", "IV"} -> 11500

\* PresionesBase.coeficientes_exposicion for the object o, with the height limit
\* its cached _altura_limite gives: one Kz per height.
coeficientes_exposicion(o, altura_limite) ==
    [i \in 1 .. Len(o.alturas) |-> kz(o.alturas[i], altura_limite, o.alfa, o.zg)]

\* PresionesBase.presiones_velocidad:
\* 0.613 * Kd * Kz * Kzt * I * V ** 2 at each height.
presiones_velocidad(o, altura_limite, importancia) ==
    LET coef == coeficientes_exposicion(o, altura_limite)
    IN [i \in 1 .. Len(o.alturas) |->
          MulFx(MulFx(MulFx(MulFx(6130, o.factor_direccionalidad), coef[i]),
                      o.factor_topografico[i]),
                importancia) * (o.velocidad * o.velocidad)]

\* The cached _altura_limite after a read: evaluated on the first read.
AlturaLimiteLeida(o) ==
    IF o.altura_limite.evaluado THEN o.altura_limite
    ELSE [evaluado |-> TRUE, valor |-> calcular_altura_limite(o.categoria_exp, o.caso)]

\* The cached factor_importancia after a read.
FactorImportanciaLeido(o) ==
    IF o.factor_importancia.evaluado THEN o.factor_importancia
    ELSE [evaluado |-> TRUE, valor |-> FactorImportancia(o.categoria)]

\* PresionesBase(alturas, categoria, velocidad, rafaga, factor_topografico,
\*               factor_direccionalidad, categoria_exp); `caso` is the argument
\* the class gives _calcular_altura_limite (2 in PresionesBase).  The heights
\* are an array of two entries in either order.
NuevaPresionesBase ==
    /\ presiones_base.estado = "ninguno"
    /\ \E h1 \in 0 .. MaxAlturaKz, h2 \in 0 .. MaxAlturaKz,
          c \in CategoriaExposicion, caso \in {1, 2} :
        presiones_base' =
            [SinPresionesBase EXCEPT
               !.estado = "construida", !.alturas = << h1, h2 >>,
               !.categoria = "II", !.velocidad = 45,
               !.alfa = ConstantesExposicion(c).alfa,
               !.zg = ConstantesExposicion(c).zg,
               !.factor_topografico = << Escala, Escala >>,
               !.factor_direccionalidad = 8500,
               !.categoria_exp = c, !.caso = caso]
    /\ UNCHANGED << cubierta_aislada, topografia, rafaga,
                    cp_componentes, presion, presiones_edificio, edificio,
                    agregado, cartel, cubierta_sprfv >>

\* Reading the property coeficientes_exposicion (evaluated at every read).
LeerCoeficientesExposicion ==
    /\ presiones_base.estado = "construida"
    /\ LET limite == AlturaLimiteLeida(presiones_base)
       IN presiones_base' = [presiones_base EXCEPT
                     !.altura_limite = limite,
                     !.lectura = [propiedad |-> "coeficientes_exposicion",
                                  resultado |-> "ok",
                                  evaluadas |-> {"coeficientes_exposicion"}],
                     !.leido = coeficientes_exposicion(presiones_base, limite.valor)]
    /\ UNCHANGED << cubierta_aislada, topografia, rafaga,
                    cp_componentes, presion, presiones_edificio, edificio,
                    agregado, cartel, cubierta_sprfv >>

\* Reading the property presiones_velocidad (evaluated at every read).
LeerPresionesVelocidad ==
    /\ presiones_base.estado = "construida"
    /\ LET limite == AlturaLimiteLeida(presiones_base)
           importancia == FactorImportanciaLeido(presiones_base)
       IN presiones_base' = [presiones_base EXCEPT
                     !.altura_limite = limite,
                     !.factor_importancia = importancia,
                     !.lectura = [propiedad |-> "presiones_velocidad",
                                  resultado |-> "ok",
                                  evaluadas |-> {"presiones_velocidad",
                                                 "coeficientes_exposicion"}],
                     !.leido = presiones_velocidad(presiones_base, limite.valor,
                                                   importancia.valor)]
    /\ UNCHANGED << cubierta_aislada, topografia, rafaga,
                    cp_componentes, presion, presiones_edificio, edificio,
                    agregado, cartel, cubierta_sprfv >>

\* The raw attribute velocidad of the object is assigned another wind speed;
\* no property is read.
AsignarVelocidad ==
    /\ presiones_base.estado = "construida"
    /\ \E velocidad \in {30, 45} :
        /\ velocidad # presiones_base.velocidad
        /\ presiones_base' = [presiones_base EXCEPT !.velocidad = velocidad]
    /\ UNCHANGED << cubierta_aislada, topografia, rafaga,
                    cp_componentes, presion, presiones_edificio, edificio,
                    agregado, cartel, cubierta_sprfv >>

(***************************************************************************)
(* zonda/cirsoc/cp/edificio.py : tributary-area interpolation and          *)
(* CubiertaComponentes.  Angles and heights are whole degrees and metres,  *)
(* the parapet is in tenths of a metre, areas are in tenths of a square    *)
(* metre, coefficients are fixed-point.                                    *)
(***************************************************************************)
\* Roof angles tried: 3 and 0, 5, ..., 5 * MaxAnguloCubierta degrees.
MaxAnguloCubierta == 10

\* Mean roof heights tried: 5, 10, ..., 5 * MaxAlturaMedia metres.
MaxAlturaMedia == 5

\* Parapets tried: 0, 0.5, ..., 0.5 * MaxParapeto metres.
MaxParapeto == 3

\* Tributary areas tried go up to ExcesoArea * 10 m2 past the largest table area.
ExcesoArea == 1

AngulosCubierta == {3} \cup {5 * k : k \in 0 .. MaxAnguloCubierta}

AlturasMedias == {5 * k : k \in 1 .. MaxAlturaMedia}

Parapetos == {5 * k : k \in 0 .. MaxParapeto}

AreasComponente ==
    {5, 10, 20, 50, 100, 200, 500} \cup {500 + 100 * k : k \in 1 .. ExcesoArea}

\* The `componentes` argument: None, one component, or two components.
Componentes ==
    {SinComponentes}
    \cup {[ninguno |-> FALSE, areas |-> << a >>] : a \in AreasComponente}
    \cup {[ninguno |-> FALSE, areas |-> << a, 600 - a >>] : a \in {5, 100}}

ZonaComponenteCubiertaEdificio == {"1", "2", "3", "2'", "3'", "todas"}

\* A table entry {"cp": (a, b)}: one segment, the areas come from the figure.
Simple(a, b) == [anidado |-> FALSE, con_area |-> FALSE, cp |-> << a, b >>]

\* A table entry {"cp": ((..), (..)), "area": ((..), (..))}: several segments.
Segmentos(cps, areas) ==
    [anidado |-> TRUE, con_area |-> TRUE, cp |-> cps, area |-> areas]

\* log10 of a fixed-point x > 0; 23026 is ln 10.
Log10Fx(x) == MulDivSigno(LnFx(x), Escala, 23026)

\* seleccionar_cp_area: for a tuple of segments, the first segment whose upper
\* area the component's area does not exceed, else the last one; for a single
\* pair, the pair itself.
RECURSIVE SeleccionarDesde(_, _, _, _)
SeleccionarDesde(i, cps, areas, area_componente) ==
    IF area_componente > areas[i][2] /\ i < Len(areas)
    THEN SeleccionarDesde(i + 1, cps, areas, area_componente)
    ELSE [cp |-> cps[i], area |-> areas[i]]

seleccionar_cp_area(cps, areas, anidado, area_componente) ==
    IF anidado THEN SeleccionarDesde(1, cps, areas, area_componente)
    ELSE [cp |-> cps, area |-> areas]

\* Mutant: the interpolation is not clamped at the last area.
calcular_cp_componente_SinTope(cps, areas, area_componente) ==
    IF area_componente <= areas[1] THEN cps[1]
    ELSE LET d == cps[2] - cps[1]
             g == Signo(d) * DivFx(Abs(d), Log10Fx((areas[2] * Escala) \div areas[1]))
         IN cps[1] + MulFx(g, Log10Fx((area_componente * Escala) \div areas[1]))

\* calcular_cp_componente
calcular_cp_componente(cps, areas, area_componente) ==
    IF area_componente <= areas[1] THEN cps[1]
    ELSE IF area_componente >= areas[2] THEN cps[2]
    ELSE LET d == cps[2] - cps[1]
             g == Signo(d) * DivFx(Abs(d), Log10Fx((areas[2] * Escala) \div areas[1]))
         IN cps[1] + MulFx(g, Log10Fx((area_componente * Escala) \div areas[1]))

\* Mutant: an eave on a tall building is given Figura 8 as the roof is.
referencia_dos_aguas_AleroComoCubierta(o) ==
    IF o.angulo <= 10 /\ o.altura_media > 20
    THEN [resultado |-> "ok", valor |-> "Figura 8"]
    ELSE IF o.angulo <= 10 THEN [resultado |-> "ok", valor |-> "Figura 5B"]
    ELSE IF o.angulo <= 30 THEN [resultado |-> "ok", valor |-> "Figura 5B (cont.) 1"]
    ELSE IF o.angulo <= 45 THEN [resultado |-> "ok", valor |-> "Figura 5B (cont.) 2"]
    ELSE [resultado |-> "ErrorLineamientos", valor |-> ""]

\* CubiertaComponentes._referencia_dos_aguas
referencia_dos_aguas(o) ==
    IF o.angulo <= 10 /\ o.altura_media > 20 /\ ~o.es_alero
    THEN [resultado |-> "ok", valor |-> "Figura 8"]
    ELSE IF o.angulo <= 10 THEN [resultado |-> "ok", valor |-> "Figura 5B"]
    ELSE IF o.angulo <= 30 THEN [resultado |-> "ok", valor |-> "Figura 5B (cont.) 1"]
    ELSE IF o.angulo <= 45 THEN [resultado |-> "ok", valor |-> "Figura 5B (cont.) 2"]
    ELSE [resultado |-> "ErrorLineamientos", valor |-> ""]

\* CubiertaComponentes._referencia_un_agua
referencia_un_agua(o) ==
    IF o.altura_media > 20
    THEN IF o.angulo <= 10 THEN [resultado |-> "ok", valor |-> "Figura 8"]
         ELSE IF o.angulo <= 30
         THEN [resultado |-> "ok", valor |-> "Figura 5B (cont.) 1"]
         ELSE IF o.angulo <= 45
         THEN [resultado |-> "ok", valor |-> "Figura 5B (cont.) 2"]
         ELSE [resultado |-> "ErrorLineamientos", valor |-> ""]
    ELSE IF o.angulo <= 3 THEN [resultado |-> "ok", valor |-> "Figura 5B"]
    ELSE IF o.angulo <= 10 THEN [resultado |-> "ok", valor |-> "Figura 7A"]
    ELSE IF o.angulo <= 30 THEN [resultado |-> "ok", valor |-> "Figura 7A (cont.)"]
    ELSE [resultado |-> "ErrorLineamientos", valor |-> ""]

\* CubiertaComponentes.referencia (the body of the cached property)
referencia_cubierta(o) ==
    IF o.tipo_cubierta # "un agua" \/ o.es_alero
    THEN referencia_dos_aguas(o)
    ELSE referencia_un_agua(o)

\* The dictionary `casos` of CubiertaComponentes.valores.
casos(referencia) ==
    CASE referencia = "Figura 5B" ->
           ("1" :> Simple(0 - 10000, 0 - 9000)) @@ ("2" :> Simple(0 - 18000, 0 - 11000))
           @@ ("3" :> Simple(0 - 28000, 0 - 11000)) @@ ("todas" :> Simple(3000, 2000))
      [] referencia = "Figura 5B (cont.) 1" ->
           ("1" :> Simple(0 - 9000, 0 - 8000)) @@ ("2" :> Simple(0 - 21000, 0 - 14000))
           @@ ("3" :> Simple(0 - 21000, 0 - 14000)) @@ ("todas" :> Simple(5000, 3000))
      [] referencia = "Figura 5B (cont.) 2" ->
           ("1" :> Simple(0 - 10000, 0 - 8000)) @@ ("2" :> Simple(0 - 12000, 0 - 10000))
           @@ ("3" :> Simple(0 - 12000, 0 - 10000)) @@ ("todas" :> Simple(9000, 8000))
      [] referencia = "Figura 7A" ->
           ("1" :> Simple(0 - 11000, 0 - 11000)) @@ ("2" :> Simple(0 - 13000, 0 - 12000))
           @@ ("3" :> Simple(0 - 18000, 0 - 12000))
           @@ ("2'" :> Simple(0 - 16000, 0 - 15000))
           @@ ("3'" :> Simple(0 - 26000, 0 - 16000)) @@ ("todas" :> Simple(3000, 2000))
      [] referencia = "Figura 7A (cont.)" ->
           ("1" :> Simple(0 - 13000, 0 - 11000)) @@ ("2" :> Simple(0 - 16000, 0 - 12000))
           @@ ("3" :> Simple(0 - 29000, 0 - 20000)) @@ ("todas" :> Simple(4000, 3000))
      [] referencia = "Figura 8" ->
           ("1" :> Simple(0 - 14000, 0 - 9000)) @@ ("2" :> Simple(0 - 23000, 0 - 16000))
           @@ ("3" :> Simple(0 - 32000, 0 - 23000))

\* The dictionary `casos_alero` of CubiertaComponentes.valores; a figure without
\* eave entries maps no zone.
casos_alero(referencia) ==
    CASE referencia = "Figura 5B" ->
           ("1" :> Segmentos(<< << 0 - 17000, 0 - 16000 >>, << 0 - 16000, 0 - 11000 >> >>,
                             << << 10, 100 >>, << 100, 500 >> >>))
           @@ ("2" :> Segmentos(<< << 0 - 17000, 0 - 16000 >>,
                                   << 0 - 16000, 0 - 11000 >> >>,
                                << << 10, 100 >>, << 100, 500 >> >>))
           @@ ("3" :> Simple(0 - 28000, 0 - 8000))
      [] referencia = "Figura 5B (cont.) 1" ->
           ("2" :> Simple(0 - 22000, 0 - 22000)) @@ ("3" :> Simple(0 - 37000, 0 - 25000))
      [] referencia = "Figura 5B (cont.) 2" ->
           ("2" :> Simple(0 - 20000, 0 - 18000)) @@ ("3" :> Simple(0 - 20000, 0 - 18000))
      [] OTHER -> << >>

\* Mutant: zone 3 takes zone 2's entry behind a parapet under every figure.
caso_cp_TodaFigura(o, referencia) ==
    LET con_alero == IF o.es_alero THEN casos_alero(referencia) @@ casos(referencia)
                     ELSE casos(referencia)
        sin_todas == IF o.es_alero
                     THEN [z \in DOMAIN con_alero \ {"todas"} |-> con_alero[z]]
                     ELSE con_alero
    IN IF o.parapeto > 10
       THEN [sin_todas EXCEPT !["3"] = sin_todas["2"]]
       ELSE sin_todas

\* The table `caso_cp` that CubiertaComponentes.valores interpolates in: the
\* figure's entries, updated with the eave's and without the zone "todas" for an
\* eave, and with zone 3 taking zone 2's entry behind a parapet above 1 m.
caso_cp(o, referencia) ==
    LET con_alero == IF o.es_alero THEN casos_alero(referencia) @@ casos(referencia)
                     ELSE casos(referencia)
        sin_todas == IF o.es_alero
                     THEN [z \in DOMAIN con_alero \ {"todas"} |-> con_alero[z]]
                     ELSE con_alero
    IN IF referencia \in {"Figura 5B", "Figura 8"} /\ o.parapeto > 10
       THEN [sin_todas EXCEPT !["3"] = sin_todas["2"]]
       ELSE sin_todas

\* The areas of the figure: (1, 50) for Figura 8, else (1, 10).
area_figura(referencia) ==
    IF referencia = "Figura 8" THEN << 10, 500 >> ELSE << 10, 100 >>

\* The loop of CubiertaComponentes.valores: for each component and each zone,
\* seleccionar_cp_area and then calcular_cp_componente.
valor_cp(o, referencia) ==
    LET tabla == caso_cp(o, referencia)
    IN [n \in 1 .. Len(o.componentes.areas) |->
          [zona \in DOMAIN tabla |->
             LET cps == tabla[zona]
                 areas == IF cps.con_area THEN cps.area ELSE area_figura(referencia)
                 filtrado == seleccionar_cp_area(cps.cp, areas, cps.anidado,
                                                 o.componentes.areas[n])
             IN calcular_cp_componente(filtrado.cp, filtrado.area,
                                       o.componentes.areas[n])]]

\* The cached property referencia after a read: evaluated on the first read,
\* stored unless it raised.
ReferenciaLeida(o) ==
    IF o.referencia.evaluado THEN [resultado |-> "ok", valor |-> o.referencia.valor]
    ELSE referencia_cubierta(o)

\* CubiertaComponentes(ancho, longitud, altura_media, angulo, tipo_cubierta,
\*                     parapeto, es_alero, componentes)
NuevaCubiertaComponentes ==
    /\ cp_componentes.estado = "ninguno"
    /\ \E h \in AlturasMedias, a \in AngulosCubierta, t \in TipoCubierta,
          p \in Parapetos, e \in BOOLEAN, c \in Componentes :
        cp_componentes' =
            [SinCpComponentes EXCEPT
               !.estado = "construida", !.ancho = 20, !.longitud = 30,
               !.altura_media = h, !.angulo = a, !.tipo_cubierta = t,
               !.parapeto = p, !.es_alero = e, !.componentes = c]
    /\ UNCHANGED << cubierta_aislada, topografia, rafaga, presiones_base,
                    presion, presiones_edificio, edificio, agregado,
                    cartel, cubierta_sprfv >>

\* Reading the cached property referencia.
LeerReferenciaComponentes ==
    /\ cp_componentes.estado = "construida"
    /\ LET r == ReferenciaLeida(cp_componentes)
       IN cp_componentes' =
            [cp_componentes EXCEPT
               !.referencia = IF r.resultado = "ok"
                              THEN [evaluado |-> TRUE, valor |-> r.valor]
                              ELSE @,
               !.lectura = [propiedad |-> "referencia", resultado |-> r.resultado,
                            evaluadas |-> IF cp_componentes.referencia.evaluado
                                          THEN {} ELSE {"referencia"}]]
    /\ UNCHANGED << cubierta_aislada, topografia, rafaga, presiones_base,
                    presion, presiones_edificio, edificio, agregado,
                    cartel, cubierta_sprfv >>

\* Reading the cached property valores (also what calling the object returns).
LeerValoresComponentes ==
    /\ cp_componentes.estado = "construida"
    /\ IF cp_componentes.valores.evaluado
       THEN cp_componentes' =
              [cp_componentes EXCEPT
                 !.lectura = [propiedad |-> "valores", resultado |-> "ok",
                              evaluadas |-> {}]]
       ELSE IF cp_componentes.componentes.ninguno
       THEN cp_componentes' =
              [cp_componentes EXCEPT
                 !.valores = [evaluado |-> TRUE, ninguno |-> TRUE, valor |-> << >>],
                 !.lectura = [propiedad |-> "valores", resultado |-> "ok",
                              evaluadas |-> {"valores"}]]
       ELSE LET r == ReferenciaLeida(cp_componentes)
                leidas == IF cp_componentes.referencia.evaluado
                          THEN {"valores"} ELSE {"valores", "referencia"}
            IN cp_componentes' =
                 [cp_componentes EXCEPT
                    !.referencia = IF r.resultado = "ok"
                                   THEN [evaluado |-> TRUE, valor |-> r.valor]
                                   ELSE @,
                    !.valores = IF r.resultado = "ok"
                                THEN [evaluado |-> TRUE, ninguno |-> FALSE,
                                      valor |-> valor_cp(cp_componentes, r.valor)]
                                ELSE @,
                    !.lectura = [propiedad |-> "valores", resultado |-> r.resultado,
                                 evaluadas |-> leidas]]
    /\ UNCHANGED << cubierta_aislada, topografia, rafaga, presiones_base,
                    presion, presiones_edificio, edificio, agregado,
                    cartel, cubierta_sprfv >>

(***************************************************************************)
(* zonda/cirsoc/cp/edificio.py : the cp objects the pressure builders are  *)
(* given.  A cp object is represented by what calling it gives: the        *)
(* outcome, whether the value is None, and the coefficients as a function  *)
(* of the key path of the nested dictionaries (component names are the     *)
(* positions 1, 2, ... of the components).                                 *)
(***************************************************************************)
DireccionVientoMetodoDireccionalSprfv == {"paralelo", "normal"}

ParedEdificioSprfv == {"barlovento", "sotavento", "lateral"}

ZonaComponenteParedEdificio == {"4", "5", "todas"}

Cerramiento == {"cerrado", "parcialmente cerrado", "abierto"}

\* The keys << nombre, zona >> of a component dictionary with n components.
ClavesComponentes(n, zonas) == {<< i, z >> : i \in 1 .. n, z \in zonas}

\* cp.edificio.CubiertaComponentes(...) as the builders use it: calling it
\* gives None without components, raises when the figure does, and otherwise
\* gives the interpolated coefficients.
cp_cubierta_componentes(altura_media, angulo, tipo_cubierta, parapeto, es_alero, componentes) ==
    LET o == [SinCpComponentes EXCEPT
                !.estado = "construida", !.ancho = 20, !.longitud = 30,
                !.altura_media = altura_media, !.angulo = angulo,
                !.tipo_cubierta = tipo_cubierta, !.parapeto = parapeto,
                !.es_alero = es_alero, !.componentes = componentes]
        r == referencia_cubierta(o)
    IN IF componentes.ninguno
       THEN [referencia |-> r.valor, resultado |-> "ok", ninguno |-> TRUE,
             valores |-> << >>]
       ELSE IF r.resultado # "ok"
       THEN [referencia |-> "", resultado |-> r.resultado, ninguno |-> TRUE,
             valores |-> << >>]
       ELSE LET v == valor_cp(o, r.valor)
            IN [referencia |-> r.valor, resultado |-> "ok", ninguno |-> FALSE,
                valores |-> [c \in ClavesComponentes(Len(v), DOMAIN v[1])
                               |-> v[c[1]][c[2]]]]

\* The dictionary valores_zonas_cp of cp.edificio.ParedesComponentes.valores.
valores_zonas_cp(referencia) ==
    IF referencia = "Figura 5A"
    THEN ("4" :> << 0 - 11000, 0 - 8000 >>) @@ ("5" :> << 0 - 14000, 0 - 8000 >>)
         @@ ("todas" :> << 10000, 7000 >>)
    ELSE ("4" :> << 0 - 9000, 0 - 7000 >>) @@ ("5" :> << 0 - 18000, 0 - 10000 >>)
         @@ ("todas" :> << 9000, 6000 >>)

\* cp.edificio.ParedesComponentes(ancho, longitud, altura_media,
\* angulo_cubierta, componentes): the figure set by __init__ and what calling
\* the object gives.
cp_paredes_componentes(altura_media, angulo_cubierta, componentes) ==
    LET referencia == IF altura_media <= 20 THEN "Figura 5A" ELSE "Figura 8"
        area == IF referencia = "Figura 8" THEN << 20, 500 >> ELSE << 10, 500 >>
        factor_reduccion == IF referencia # "Figura 8" /\ angulo_cubierta <= 10
                            THEN 9000 ELSE Escala
        tabla == valores_zonas_cp(referencia)
    IN IF componentes.ninguno
       THEN [referencia |-> referencia, resultado |-> "ok", ninguno |-> TRUE,
             valores |-> << >>]
       ELSE [referencia |-> referencia, resultado |-> "ok", ninguno |-> FALSE,
             valores |->
               [c \in ClavesComponentes(Len(componentes.areas),
                                        ZonaComponenteParedEdificio) |->
                  MulFx(calcular_cp_componente(tabla[c[2]], area,
                                               componentes.areas[c[1]]),
                        factor_reduccion)]]

\* ParedesSprfvMetodoDireccional._cp_pared_sotavento: np.interp of the plan
\* ratio over (0, 1, 2, 4) -> (-0.5, -0.5, -0.3, -0.2).
cp_pared_sotavento(dimension_paralela, dimension_normal) ==
    LET r == (dimension_paralela * Escala) \div dimension_normal
    IN IF r <= Escala THEN 0 - 5000
       ELSE IF r <= 2 * Escala THEN 0 - 5000 + MulFx(r - Escala, 2000)
       ELSE IF r <= 4 * Escala THEN 0 - 3000 + MulFx(r - 2 * Escala, 500)
       ELSE 0 - 2000

\* cp.edificio.ParedesSprfvMetodoDireccional(ancho, longitud)
cp_paredes_sprfv(ancho, longitud) ==
    [referencia |-> "Figura 3 (cont.)", resultado |-> "ok", ninguno |-> FALSE,
     valores |->
       [c \in DireccionVientoMetodoDireccionalSprfv \X ParedEdificioSprfv |->
          IF c[2] = "barlovento" THEN 8000
          ELSE IF c[2] = "lateral" THEN 0 - 7000
          ELSE IF c[1] = "paralelo" THEN cp_pared_sotavento(longitud, ancho)
          ELSE cp_pared_sotavento(ancho, longitud)]]

\* A roof or eave SPRFV cp object, given by its coefficients: one for wind
\* parallel to the ridge, the windward pair and the leeward one for wind normal
\* to it.  Key paths are padded with "-" to three keys.
cp_cubierta_sprfv(paralelo, negativa, positiva, sotavento) ==
    [referencia |-> "Figura 3 (cont.)", resultado |-> "ok", ninguno |-> FALSE,
     valores |->
       (<< "paralelo", "0", "-" >> :> paralelo)
       @@ (<< "normal", "barlovento", "presión negativa" >> :> negativa)
       @@ (<< "normal", "barlovento", "presión positiva" >> :> positiva)
       @@ (<< "normal", "sotavento", "-" >> :> sotavento)]

(***************************************************************************)
(* sse102/cirsoc/presiones/edificio.py : presion_minima                    *)
(* Pressures are fixed-point N/m2.                                         *)
(***************************************************************************)
\* Pressures tried: multiples of 25 N/m2 up to 25 * MaxPresion either side of 0.
MaxPresion == 60

Presiones == {k * 25 * Escala : k \in (0 - MaxPresion) .. MaxPresion}

\* presion_minima: np.sign(presion) * max(500, abs(presion))
presion_minima(p) == Signo(p) * Max(500 * Escala, Abs(p))

\* One call of presion_minima.
AplicarPresionMinima ==
    /\ \E p \in Presiones :
        presion' = [estado |-> "aplicada", presion |-> p,
                    resultado |-> presion_minima(p)]
    /\ UNCHANGED << cubierta_aislada, topografia, rafaga, presiones_base,
                    cp_componentes, presiones_edificio, edificio, agregado,
                    cartel, cubierta_sprfv >>

(***************************************************************************)
(* sse102/cirsoc/presiones/edificio.py : the pressure builders             *)
(* CubiertaSprfvMetodoDireccional, AleroSprfvMetodoDireccional,            *)
(* ParedesSprfvMetodoDireccional, CubiertaComponentes, AleroComponentes    *)
(* and ParedesComponentes.  A returned pressure is a record with the       *)
(* positive-internal and negative-internal values (or the single value of  *)
(* an eave); `escalar` tells a float from an array, and both are kept as   *)
(* sequences, a float being a sequence of one value.                       *)
(***************************************************************************)
\* The heights of a builder are paso, 2 * paso, ..., up to MaxNiveles of them.
MaxNiveles == 3

\* Basic wind speeds tried: 30, 45, ..., 15 * MaxVelocidadBasica m/s.
MaxVelocidadBasica == 3

ClasesPresiones ==
    {"CubiertaSprfvMetodoDireccional", "AleroSprfvMetodoDireccional",
     "ParedesSprfvMetodoDireccional", "CubiertaComponentes", "AleroComponentes",
     "ParedesComponentes"}

ClasesComponentes == {"CubiertaComponentes", "AleroComponentes", "ParedesComponentes"}

ClasesAlero == {"AleroSprfvMetodoDireccional", "AleroComponentes"}

ClasesParedes == {"ParedesSprfvMetodoDireccional", "ParedesComponentes"}

\* The elements of s at the positions where mascara is TRUE (numpy boolean
\* indexing).
RECURSIVE Filtrar(_, _)
Filtrar(s, mascara) ==
    IF Len(s) = 0 THEN << >>
    ELSE IF Head(mascara) THEN << Head(s) >> \o Filtrar(Tail(s), Tail(mascara))
    ELSE Filtrar(Tail(s), Tail(mascara))

\* CubiertaSprfvMetodoDireccional._presiones
presiones(presion_velocidad, cp, factor_de_rafaga, presion_velocidad_media, gcpi, considerar_presion_minima) ==
    LET q1 == MulFx(MulFx(presion_velocidad, factor_de_rafaga), cp)
        q2 == MulFx(presion_velocidad_media, gcpi)
        q_pos == q1 - q2
        q_neg == q1 + q2
    IN IF considerar_presion_minima
       THEN [pos |-> presion_minima(q_pos), neg |-> presion_minima(q_neg)]
       ELSE [pos |-> q_pos, neg |-> q_neg]

\* AleroSprfvMetodoDireccional._presiones
presiones_alero(presion_velocidad, cp, factor_de_rafaga, considerar_presion_minima) ==
    LET p == MulFx(MulFx(presion_velocidad, factor_de_rafaga), cp)
    IN IF considerar_presion_minima THEN presion_minima(p) ELSE p

\* Mutant: the two groups of classes exchange their argument.
CasoAlturaLimite_Invertido(clase) == IF clase \in ClasesComponentes THEN 2 ELSE 1

\* The argument of _calcular_altura_limite in the class's _altura_limite.
CasoAlturaLimite(clase) == IF clase \in ClasesComponentes THEN 1 ELSE 2

\* The property presiones_velocidad of the builder o.
presiones_velocidad_edificio(o) ==
    presiones_velocidad(o, calcular_altura_limite(o.categoria_exp,
                                                  CasoAlturaLimite(o.clase)),
                        FactorImportancia(o.categoria))

\* Mutant: the velocity pressure "at mean roof height" is taken at the first
\* height.
presion_velocidad_media_PrimeraAltura(o) ==
    LET en_media == Filtrar(presiones_velocidad_edificio(o),
                            o.bool_indices_altura_media)
    IN IF Len(en_media) = 0 THEN [resultado |-> "IndexError", valor |-> 0]
       ELSE [resultado |-> "ok", valor |-> presiones_velocidad_edificio(o)[1]]

\* The property presion_velocidad_media:
\* presiones_velocidad[_bool_indices_altura_media][0].
presion_velocidad_media(o) ==
    LET en_media == Filtrar(presiones_velocidad_edificio(o),
                            o.bool_indices_altura_media)
    IN IF Len(en_media) = 0 THEN [resultado |-> "IndexError", valor |-> 0]
       ELSE [resultado |-> "ok", valor |-> en_media[1]]

\* The property presion_velocidad_alero of the wall builders.
presion_velocidad_alero(o) ==
    Filtrar(presiones_velocidad_edificio(o), o.bool_indices_alero)

\* Mutant: every enclosure is reduced.
factor_reduccion_gcpi_TodoCerramiento(o) ==
    IF o.reducir_gcpi
       /\ ~o.volumen_interno.ninguno /\ ~o.aberturas_totales.ninguno
       /\ o.aberturas_totales.valor # 0
    THEN LET relacion == (o.volumen_interno.valor * Escala)
                             \div (6954 * o.aberturas_totales.valor)
             reduccion == (Escala + DivFx(Escala, RaizFx(Escala + relacion))) \div 2
         IN Min(reduccion, Escala)
    ELSE Escala

\* The cached property factor_reduccion_gcpi; the volume is in m3 and the
\* openings in m2.
factor_reduccion_gcpi(o) ==
    IF o.reducir_gcpi /\ o.cerramiento = "parcialmente cerrado"
       /\ ~o.volumen_interno.ninguno /\ ~o.aberturas_totales.ninguno
       /\ o.aberturas_totales.valor # 0
    THEN LET relacion == (o.volumen_interno.valor * Escala)
                             \div (6954 * o.aberturas_totales.valor)
             reduccion == (Escala + DivFx(Escala, RaizFx(Escala + relacion))) \div 2
         IN Min(reduccion, Escala)
    ELSE Escala

\* The cached property gcpi.
gcpi_edificio(o) ==
    LET cerramiento_gcpi == CASE o.cerramiento = "cerrado" -> 1800
                              [] o.cerramiento = "parcialmente cerrado" -> 5500
                              [] o.cerramiento = "abierto" -> 0
    IN MulFx(cerramiento_gcpi, factor_reduccion_gcpi(o))

\* A pressure pair at each velocity pressure of the array qi.
PresionesArreglo(qi, cp, factor_de_rafaga, qh, gcpi) ==
    [escalar |-> FALSE,
     pos |-> [i \in 1 .. Len(qi) |->
                presiones(qi[i], cp, factor_de_rafaga, qh, gcpi,
                          FALSE).pos],
     neg |-> [i \in 1 .. Len(qi) |->
                presiones(qi[i], cp, factor_de_rafaga, qh, gcpi,
                          FALSE).neg]]

\* A pressure pair at one velocity pressure.
PresionesEscalar(qi, cp, factor_de_rafaga, qh, gcpi, minima) ==
    LET p == presiones(qi, cp, factor_de_rafaga, qh, gcpi, minima)
    IN [escalar |-> TRUE, pos |-> << p.pos >>, neg |-> << p.neg >>]

\* CubiertaSprfvMetodoDireccional.valores: every coefficient through the
\* partial bound by __init__.
valores_cubierta_sprfv(o) ==
    [resultado |-> "ok", ninguno |-> FALSE,
     presiones |->
       [c \in DOMAIN o.cp.valores |->
          PresionesEscalar(o.parcial.presion_velocidad, o.cp.valores[c],
                           o.factores_rafaga[c[1]],
                           o.parcial.presion_velocidad_media, o.parcial.gcpi,
                           FALSE)]]

\* AleroSprfvMetodoDireccional.valores: a single pressure per coefficient.
valores_alero_sprfv(o) ==
    [resultado |-> "ok", ninguno |-> FALSE,
     presiones |->
       [c \in DOMAIN o.cp.valores |->
          [escalar |-> TRUE,
           presion |-> << presiones_alero(o.parcial.presion_velocidad,
                                          o.cp.valores[c],
                                          o.factores_rafaga[c[1]], FALSE) >>]]]

\* Mutant: the windward wall is taken up to the eave for every wind direction
\* and roof type.
valores_paredes_sprfv_SiempreAlero(o) ==
    LET media == presion_velocidad_media(o).valor
    IN [resultado |-> "ok", ninguno |-> FALSE,
        presiones |->
          [c \in DOMAIN o.cp.valores |->
             IF c[2] = "barlovento"
             THEN PresionesArreglo(presion_velocidad_alero(o),
                    o.cp.valores[c], o.factores_rafaga[c[1]], o.gcpi.valor, media)
             ELSE PresionesEscalar(media, o.cp.valores[c], o.factores_rafaga[c[1]],
                                   o.gcpi.valor, media, FALSE)]]

\* ParedesSprfvMetodoDireccional.valores.  _presiones is called positionally
\* with (qi, cp, factor, self.gcpi, self.presion_velocidad_media): gcpi lands
\* in the parameter presion_velocidad_media and the mean velocity pressure in
\* the parameter gcpi.
valores_paredes_sprfv(o) ==
    LET media == presion_velocidad_media(o).valor
    IN [resultado |-> "ok", ninguno |-> FALSE,
        presiones |->
          [c \in DOMAIN o.cp.valores |->
             IF c[2] = "barlovento"
             THEN PresionesArreglo(
                    IF c[1] = "normal" /\ o.tipo_cubierta # "un agua"
                    THEN presion_velocidad_alero(o)
                    ELSE presiones_velocidad_edificio(o),
                    o.cp.valores[c], o.factores_rafaga[c[1]], o.gcpi.valor, media)
             ELSE PresionesEscalar(media, o.cp.valores[c], o.factores_rafaga[c[1]],
                                   o.gcpi.valor, media, FALSE)]]

\* MixinCr._presiones_componentes: None without coefficients, else every
\* coefficient through the partial with factor_rafaga=1 and
\* considerar_presion_minima=True.
presiones_componentes(o) ==
    IF o.cp.resultado # "ok"
    THEN [resultado |-> o.cp.resultado, ninguno |-> TRUE, presiones |-> << >>]
    ELSE IF o.cp.ninguno
    THEN [resultado |-> "ok", ninguno |-> TRUE, presiones |-> << >>]
    ELSE [resultado |-> "ok", ninguno |-> FALSE,
          presiones |->
            [c \in DOMAIN o.cp.valores |->
               IF o.clase \in ClasesAlero
               THEN [escalar |-> TRUE,
                     presion |-> << presiones_alero(o.parcial.presion_velocidad,
                                                    o.cp.valores[c], Escala, TRUE) >>]
               ELSE PresionesEscalar(o.parcial.presion_velocidad, o.cp.valores[c],
                                     Escala, o.parcial.presion_velocidad_media,
                                     o.parcial.gcpi, TRUE)]]

\* ParedesComponentes._presiones_cr_caso_b: for each wall and each component
\* zone, _presiones called positionally with
\* (qi, valor_gcp, 1, self.gcpi, self.presion_velocidad_media).
presiones_cr_caso_b(o) ==
    LET media == presion_velocidad_media(o).valor
    IN IF o.cp.ninguno
       THEN [resultado |-> "ok", ninguno |-> TRUE, presiones |-> << >>]
       ELSE [resultado |-> "ok", ninguno |-> FALSE,
             presiones |->
               [c \in {<< pared, k[1], k[2] >> :
                         pared \in ParedEdificioSprfv, k \in DOMAIN o.cp.valores} |->
                  IF c[1] = "barlovento"
                  THEN PresionesArreglo(presiones_velocidad_edificio(o),
                                        o.cp.valores[<< c[2], c[3] >>], Escala,
                                        o.gcpi.valor, media)
                  ELSE PresionesEscalar(media, o.cp.valores[<< c[2], c[3] >>],
                                        Escala, o.gcpi.valor, media, FALSE)]]

\* The body of the cached property valores of the builder's class.
valores_edificio(o) ==
    CASE o.clase = "CubiertaSprfvMetodoDireccional" -> valores_cubierta_sprfv(o)
      [] o.clase = "AleroSprfvMetodoDireccional" -> valores_alero_sprfv(o)
      [] o.clase = "ParedesSprfvMetodoDireccional" -> valores_paredes_sprfv(o)
      [] o.clase \in {"CubiertaComponentes", "AleroComponentes"} ->
           presiones_componentes(o)
      [] o.clase = "ParedesComponentes" ->
           IF o.cp.referencia = "Figura 8" THEN presiones_cr_caso_b(o)
           ELSE presiones_componentes(o)

\* The spacings of the heights of a builder, in metres.
Pasos == {4, 10}

VelocidadesBasicas == {15 * k : k \in 2 .. MaxVelocidadBasica}

\* reducir_gcpi, aberturas_totales and volumen_interno as the builders get them.
OpcionesGcpi ==
    {[reducir_gcpi |-> FALSE, aberturas_totales |-> Ninguno,
      volumen_interno |-> Ninguno],
     [reducir_gcpi |-> TRUE, aberturas_totales |-> Algun(0),
      volumen_interno |-> Algun(5000)],
     [reducir_gcpi |-> TRUE, aberturas_totales |-> Algun(10),
      volumen_interno |-> Algun(5000)],
     [reducir_gcpi |-> TRUE, aberturas_totales |-> Algun(10),
      volumen_interno |-> Ninguno]}

\* The components given to the cp objects of the component builders.
ComponentesEdificio ==
    {SinComponentes, [ninguno |-> FALSE, areas |-> << 20 >>],
     [ninguno |-> FALSE, areas |-> << 5, 595 >>]}

\* The cp objects a builder of the class can be given, for the mean roof height
\* of the building.
CpsPara(clase, altura_media) ==
    CASE clase \in {"CubiertaSprfvMetodoDireccional", "AleroSprfvMetodoDireccional"} ->
           {cp_cubierta_sprfv(c, c, 2000, 0 - 6000) : c \in {0 - 9000, 0 - 3000}}
      [] clase = "ParedesSprfvMetodoDireccional" ->
           {cp_paredes_sprfv(20, 30), cp_paredes_sprfv(10, 40)}
      [] clase \in {"CubiertaComponentes", "AleroComponentes"} ->
           {cp_cubierta_componentes(altura_media, a, "dos aguas", 0,
                                    clase = "AleroComponentes", c) :
              a \in {5, 20, 50}, c \in ComponentesEdificio}
      [] clase = "ParedesComponentes" ->
           {cp_paredes_componentes(altura_media, a, c) :
              a \in {5, 20}, c \in ComponentesEdificio}

\* __init__ of the builder's class on the attributes a: the attributes are
\* stored, the masks computed, and the partial bound, which reads
\* presion_velocidad_media (IndexError when no height is the mean roof height)
\* and, except for the eaves' own partial, the cached gcpi.
ConstruirPresiones(a) ==
    LET o == [a EXCEPT
                !.cerramiento = IF a.clase \in ClasesAlero THEN "abierto" ELSE @,
                !.factor_direccionalidad = 8500,
                !.bool_indices_altura_media =
                    [i \in 1 .. Len(a.alturas) |-> a.alturas[i] = a.altura_media],
                !.bool_indices_alero =
                    IF a.clase \in ClasesParedes
                    THEN [i \in 1 .. Len(a.alturas) |-> a.alturas[i] <= a.altura_alero]
                    ELSE << >>]
        media == presion_velocidad_media(o)
    IN IF media.resultado # "ok"
       THEN [o EXCEPT !.estado = media.resultado]
       ELSE [o EXCEPT
               !.estado = "construida",
               !.altura_limite =
                   [evaluado |-> TRUE,
                    valor |-> calcular_altura_limite(o.categoria_exp,
                                                     CasoAlturaLimite(o.clase))],
               !.factor_importancia =
                   [evaluado |-> TRUE, valor |-> FactorImportancia(o.categoria)],
               !.factor_reduccion_gcpi =
                   [evaluado |-> TRUE, valor |-> factor_reduccion_gcpi(o)],
               !.gcpi = [evaluado |-> TRUE, valor |-> gcpi_edificio(o)],
               !.parcial =
                   IF o.clase \in ClasesAlero
                   THEN [presion_velocidad |-> media.valor]
                   ELSE [presion_velocidad |-> media.valor,
                         gcpi |-> gcpi_edificio(o),
                         presion_velocidad_media |-> media.valor]]

\* A builder of one of the six classes is constructed.  The two Rafaga objects
\* are given by their factors and, as in estructuras.py, they and the builder
\* share the exposure category.  The eaves take no enclosure arguments; the
\* reduction arguments are tried with every enclosure of the other classes.
NuevaPresionesEdificio ==
    /\ presiones_edificio.estado = "ninguno"
    /\ \E clase \in ClasesPresiones, paso \in Pasos, m \in 1 .. MaxNiveles + 1,
          e \in 1 .. MaxNiveles, t \in {"dos aguas", "un agua"},
          v \in VelocidadesBasicas,
          c \in CategoriaExposicion, cerramiento \in Cerramiento,
          g \in OpcionesGcpi :
        /\ (clase \in ClasesParedes => e <= m)
        /\ (clase \notin ClasesParedes => e = 1 /\ t = "dos aguas")
        /\ (clase \in ClasesAlero => cerramiento = "abierto")
        /\ (clase \in ClasesAlero => ~g.reducir_gcpi)
        /\ (cerramiento = "cerrado" => g.aberturas_totales # Algun(0))
        /\ \E cp \in CpsPara(clase, IF m <= MaxNiveles THEN paso * m
                                    ELSE paso * MaxNiveles + 1) :
            presiones_edificio' =
              ConstruirPresiones(
                [SinPresionesEdificio EXCEPT
                   !.clase = clase,
                   !.alturas = [i \in 1 .. MaxNiveles |-> paso * i],
                   !.altura_media = IF m <= MaxNiveles THEN paso * m
                                    ELSE paso * MaxNiveles + 1,
                   !.altura_alero = IF clase \in ClasesParedes THEN paso * e ELSE 0,
                   !.tipo_cubierta = t, !.categoria = "I", !.velocidad = v,
                   !.alfa = ConstantesExposicion(c).alfa,
                   !.zg = ConstantesExposicion(c).zg,
                   !.factor_topografico =
                       [i \in 1 .. MaxNiveles |-> Escala + 500 * (i - 1)],
                   !.cerramiento = cerramiento, !.cp = cp, !.categoria_exp = c,
                   !.reducir_gcpi = g.reducir_gcpi,
                   !.aberturas_totales = g.aberturas_totales,
                   !.volumen_interno = g.volumen_interno,
                   !.factores_rafaga = [paralelo |-> 8500, normal |-> 8800]])
    /\ UNCHANGED << cubierta_aislada, topografia, rafaga, presiones_base,
                    cp_componentes, presion, edificio, agregado, cartel,
                    cubierta_sprfv >>

\* Reading the cached property valores (also what calling the builder returns).
LeerValoresEdificio ==
    /\ presiones_edificio.estado = "construida"
    /\ IF presiones_edificio.valores.evaluado
       THEN presiones_edificio' =
              [presiones_edificio EXCEPT
                 !.lectura = [propiedad |-> "valores", resultado |-> "ok",
                              evaluadas |-> {}]]
       ELSE LET r == valores_edificio(presiones_edificio)
            IN presiones_edificio' =
                 [presiones_edificio EXCEPT
                    !.valores = IF r.resultado = "ok"
                                THEN [evaluado |-> TRUE, ninguno |-> r.ninguno,
                                      presiones |-> r.presiones]
                                ELSE @,
                    !.lectura = [propiedad |-> "valores", resultado |-> r.resultado,
                                 evaluadas |-> {"valores"}]]
    /\ UNCHANGED << cubierta_aislada, topografia, rafaga, presiones_base,
                    cp_componentes, presion, edificio, agregado, cartel,
                    cubierta_sprfv >>

(***************************************************************************)
(* zonda/cirsoc/cp/aisladas.py : CubiertaAislada.__init__                  *)
(***************************************************************************)
\* Largest roof angle, in degrees, of either sign, that is tried.
MaxAngulo == 32

\* How far, in tenths, the blockage ratio is tried outside [0, 1].
ExcesoBloqueo == 2

\* Angles are counted in half degrees.
Grados(n) == 2 * n

Angulos == Grados(-MaxAngulo) .. Grados(MaxAngulo)

\* Blockage ratios, in tenths.
RelacionesBloqueo == (0 - ExcesoBloqueo) .. (10 + ExcesoBloqueo)

\* Mutant: the duo-pitch range is closed, so that exactly 5 degrees is rejected.
ConstruirCubiertaAislada_RangoCerrado(tipo_cubierta, angulo, relacion_bloqueo) ==
    IF ~(0 <= relacion_bloqueo /\ relacion_bloqueo <= 10)
    THEN "ValueError"
    ELSE IF tipo_cubierta \notin {"dos aguas", "un agua"}
    THEN "ErrorLineamientos"
    ELSE IF (Grados(-5) <= angulo /\ angulo <= Grados(5)) /\ tipo_cubierta = "dos aguas"
    THEN "ErrorLineamientos"
    ELSE IF ~(Grados(0) <= angulo /\ angulo <= Grados(30)) /\ tipo_cubierta = "un agua"
    THEN "ErrorLineamientos"
    ELSE "ok"

\* Mutant: the normative checks run before the validation of the blockage ratio.
ConstruirCubiertaAislada_ValidaDespues(tipo_cubierta, angulo, relacion_bloqueo) ==
    IF tipo_cubierta \notin {"dos aguas", "un agua"}
    THEN "ErrorLineamientos"
    ELSE IF (Grados(-5) < angulo /\ angulo < Grados(5)) /\ tipo_cubierta = "dos aguas"
    THEN "ErrorLineamientos"
    ELSE IF ~(Grados(0) <= angulo /\ angulo <= Grados(30)) /\ tipo_cubierta = "un agua"
    THEN "ErrorLineamientos"
    ELSE IF ~(0 <= relacion_bloqueo /\ relacion_bloqueo <= 10)
    THEN "ValueError"
    ELSE "ok"

\* The outcome of the constructor: the exception it raises, or "ok".
ConstruirCubiertaAislada(tipo_cubierta, angulo, relacion_bloqueo) ==
    IF ~(0 <= relacion_bloqueo /\ relacion_bloqueo <= 10)
    THEN "ValueError"
    ELSE IF tipo_cubierta \notin {"dos aguas", "un agua"}
    THEN "ErrorLineamientos"
    ELSE IF (Grados(-5) < angulo /\ angulo < Grados(5)) /\ tipo_cubierta = "dos aguas"
    THEN "ErrorLineamientos"
    ELSE IF ~(Grados(0) <= angulo /\ angulo <= Grados(30)) /\ tipo_cubierta = "un agua"
    THEN "ErrorLineamientos"
    ELSE "ok"

\* CubiertaAislada(tipo_cubierta, angulo, relacion_bloqueo, posicion_bloqueo)
NuevaCubiertaAislada ==
    /\ cubierta_aislada.resultado = "ninguno"
    /\ \E t \in TipoCubierta, a \in Angulos, rb \in RelacionesBloqueo,
          p \in PosicionBloqueoCubierta :
        cubierta_aislada' =
            [resultado |-> ConstruirCubiertaAislada(t, a, rb),
             tipo_cubierta |-> t, angulo |-> a,
             relacion_bloqueo |-> rb, posicion_bloqueo |-> p,
             valores |-> SinCubiertaAislada.valores]
    /\ UNCHANGED << topografia, rafaga, presiones_base,
                    cp_componentes, presion, presiones_edificio, edificio,
                    agregado, cartel, cubierta_sprfv >>

(***************************************************************************)
(* Specifications: one per engine object.  Each starts with no object      *)
(* constructed; an object is constructed once and then read.               *)
(***************************************************************************)
(***************************************************************************)
(* zonda/cirsoc/geometria/cubiertas.py : Cubierta,                         *)
(* zonda/cirsoc/geometria/utils_alturas.py : array_alturas and             *)
(* sse102/cirsoc/geometria/edificio.py : Edificio.                         *)
(* Lengths and heights are whole numbers of quarter metres, areas (m2),    *)
(* the volume (m3), the slope and the angle (degrees) are fixed-point.     *)
(***************************************************************************)
\* Quarter metres in n metres.
Metros(n) == 4 * n

\* math.ceil of a height, in metres.
Techo(altura) == (altura + 3) \div 4

\* An optional sequence argument left at None.
NingunaLista == [ninguno |-> TRUE, valor |-> << >>]

SinCubierta ==
    [ancho |-> 0, longitud |-> 0, altura_alero |-> 0, altura_cumbrera |-> 0,
     tipo_cubierta |-> "plana", angulo |-> SinValor, altura_media |-> SinValor]

SinEdificio ==
    [estado |-> "ninguno", ancho |-> 0, longitud |-> 0, elevacion |-> 0,
     altura_alero |-> 0, altura_cumbrera |-> 0, tipo_cubierta |-> "plana",
     cubierta |-> SinCubierta,
     alturas_personalizadas |-> NingunaLista,
     volumen_dado |-> Ninguno,
     volumen_interno |-> 0, aberturas_dadas |-> << >>,
     volumen |-> SinValor,
     areas |-> [evaluado |-> FALSE, valor |-> << >>],
     aberturas |-> [evaluado |-> FALSE, valor |-> << >>],
     area_total |-> SinValor, abertura_total |-> SinValor,
     alturas |-> [evaluado |-> FALSE, valor |-> << >>],
     lectura |-> SinLectura]

\* One halving of the tangent: tan(a / 2) = t / (1 + sqrt(1 + t * t)), 0 <= t <= 1.
MitadTangente(t) == DivFx(t, Escala + RaizFx(Escala + MulFx(t, t)))

\* atan(y) for 0 <= y <= 0.2: y - y^3 / 3 + y^5 / 5 - y^7 / 7.
SerieArcotangente(y) ==
    LET y2 == MulFx(y, y)
        t3 == MulFx(y, y2)
        t5 == MulFx(t3, y2)
        t7 == MulFx(t5, y2)
    IN y - t3 \div 3 + t5 \div 5 - t7 \div 7

\* Degrees of an angle of r >= 0 radians: r * 180 / pi.
GradosFx(r) == DivLarga((r * 18000) \div 31416, (r * 18000) % 31416, 31416, 2)

\* math.degrees(math.atan(t)) for a fixed-point t of either sign, to within
\* 0.05 degree.
AtanGradosFx(t) ==
    LET a == Abs(t)
        g == IF a <= Escala
             THEN GradosFx(4 * SerieArcotangente(MitadTangente(MitadTangente(a))))
             ELSE 90 * Escala
                  - GradosFx(4 * SerieArcotangente(
                                   MitadTangente(MitadTangente(DivFx(Escala, a)))))
    IN Signo(t) * g

\* Cubierta.__init__ (the attributes the building reads).
ConstruirCubierta(ancho, longitud, altura_alero, altura_cumbrera, tipo_cubierta) ==
    [SinCubierta EXCEPT
       !.ancho = ancho, !.longitud = longitud, !.altura_alero = altura_alero,
       !.tipo_cubierta = tipo_cubierta,
       !.altura_cumbrera = IF tipo_cubierta = "plana" THEN altura_alero
                           ELSE altura_cumbrera]

\* Mutant: the slope of a duo-pitch roof is not doubled.
angulo_cubierta_SinDoblar(c) ==
    IF c.ancho = 0 THEN [resultado |-> "ZeroDivisionError", valor |-> 0]
    ELSE LET pendiente == ((c.altura_cumbrera - c.altura_alero) * Escala) \div c.ancho
         IN [resultado |-> "ok", valor |-> AtanGradosFx(pendiente)]

\* Cubierta.angulo: the slope is rise / width, doubled for a duo-pitch roof.
angulo_cubierta(c) ==
    IF c.ancho = 0 THEN [resultado |-> "ZeroDivisionError", valor |-> 0]
    ELSE LET pendiente == ((c.altura_cumbrera - c.altura_alero) * Escala) \div c.ancho
         IN [resultado |-> "ok",
             valor |-> AtanGradosFx(IF c.tipo_cubierta = "dos aguas"
                                    THEN 2 * pendiente ELSE pendiente)]

\* Cubierta.altura_media, given the angle.
altura_media_cubierta(c, angulo) ==
    IF angulo <= 10 * Escala THEN c.altura_alero
    ELSE (c.altura_alero + c.altura_cumbrera) \div 2

\* Cubierta.area
area_cubierta(c) ==
    LET altura == c.altura_cumbrera - c.altura_alero
    IN CASE c.tipo_cubierta = "plana" -> c.ancho * c.longitud * 625
         [] c.tipo_cubierta = "dos aguas" ->
              ((RaizFx((4 * altura * altura + c.ancho * c.ancho) * Escala) \div 4)
               * c.longitud) \div 4
         [] c.tipo_cubierta = "un agua" ->
              ((RaizFx((altura * altura + c.ancho * c.ancho) * Escala) \div 4)
               * c.longitud) \div 4

\* Cubierta.area_mojinete
area_mojinete(c) == (c.ancho * (c.altura_cumbrera - c.altura_alero) * 625) \div 2

\* Whether the sequence has the value (Python's `in`).
Contiene(s, x) == \E i \in 1 .. Len(s) : s[i] = x

\* list.sort(): the values in non-decreasing order, repeated values kept.
RECURSIVE Ordenar(_)
Ordenar(s) ==
    IF Len(s) <= 1 THEN s
    ELSE LET x == Head(s)
             resto == Ordenar(Tail(s))
         IN SelectSeq(resto, LAMBDA y : y < x) \o << x >>
            \o SelectSeq(resto, LAMBDA y : y >= x)

\* The loop of array_alturas over alturas_caracteristicas: each one is appended
\* when it is not yet in the list.
RECURSIVE AgregarCaracteristicas(_, _)
AgregarCaracteristicas(alturas, caracteristicas) ==
    IF Len(caracteristicas) = 0 THEN alturas
    ELSE AgregarCaracteristicas(
             IF Contiene(alturas, Head(caracteristicas)) THEN alturas
             ELSE Append(alturas, Head(caracteristicas)),
             Tail(caracteristicas))

\* Mutant: only the bottom and the top are added as characteristic heights.
array_alturas_SinOtras(altura_inferior, altura_superior, alturas_personalizadas, otras_alturas) ==
    LET alturas ==
          IF ~alturas_personalizadas.ninguno
          THEN SelectSeq(alturas_personalizadas.valor,
                         LAMBDA altura : altura_inferior <= altura
                                         /\ altura <= altura_superior)
          ELSE [i \in 1 .. Max(0, Techo(altura_superior) - Techo(altura_inferior)) |->
                  Metros(Techo(altura_inferior) + i - 1)]
    IN Ordenar(AgregarCaracteristicas(alturas, << altura_inferior, altura_superior >>))

\* array_alturas: the custom heights within [altura_inferior, altura_superior],
\* or range(ceil(altura_inferior), ceil(altura_superior)) metres, then the
\* characteristic heights, sorted.
array_alturas(altura_inferior, altura_superior, alturas_personalizadas, otras_alturas) ==
    LET alturas ==
          IF ~alturas_personalizadas.ninguno
          THEN SelectSeq(alturas_personalizadas.valor,
                         LAMBDA altura : altura_inferior <= altura
                                         /\ altura <= altura_superior)
          ELSE [i \in 1 .. Max(0, Techo(altura_superior) - Techo(altura_inferior)) |->
                  Metros(Techo(altura_inferior) + i - 1)]
    IN Ordenar(AgregarCaracteristicas(
                   alturas, << altura_inferior, altura_superior >> \o otras_alturas))

\* Edificio._area_frontal
area_frontal(e) == e.ancho * e.cubierta.altura_alero * 625 + area_mojinete(e.cubierta)

\* Edificio._area_izquierda
area_izquierda(e) == e.longitud * e.cubierta.altura_alero * 625

\* Edificio._area_derecha
area_derecha(e) ==
    IF e.tipo_cubierta = "un agua" THEN e.longitud * e.cubierta.altura_cumbrera * 625
    ELSE area_izquierda(e)

\* Edificio.areas: frontal, izquierda, trasera, derecha, cubierta.
areas_edificio(e) ==
    << area_frontal(e), area_izquierda(e), area_frontal(e), area_derecha(e),
       area_cubierta(e.cubierta) >>

\* Mutant: an opening is only kept from being negative.
aberturas_edificio_SinTope(dadas, areas) ==
    [i \in 1 .. Min(Len(dadas), Len(areas)) |->
       IF dadas[i] >= 0 THEN dadas[i] ELSE 0]

\* Edificio.aberturas on _aberturas and areas:
\* min(abertura, area) if abertura >= 0 else 0.0, over zip(_aberturas, areas).
aberturas_edificio(dadas, areas) ==
    [i \in 1 .. Min(Len(dadas), Len(areas)) |->
       IF dadas[i] >= 0 THEN Min(dadas[i], areas[i]) ELSE 0]

\* sum() of a sequence.
RECURSIVE Suma(_)
Suma(s) == IF Len(s) = 0 THEN 0 ELSE Head(s) + Suma(Tail(s))

\* Edificio.volumen: _area_frontal() * longitud.
volumen_edificio(e) == (area_frontal(e) * e.longitud) \div 4

\* Building widths tried, in quarter metres (0 m, 25 m, 30 m).
AnchosEdificio == {0, 100, 120}

\* Elevations tried: 0, 0.5, ..., 0.5 * MaxElevacion metres.
MaxElevacion == 2

\* Custom height lists tried have up to MaxPersonalizadas entries.
MaxPersonalizadas == 2

\* Openings tried go up to MaxAbertura m2.
MaxAbertura == 5000

ElevacionesEdificio == {2 * k : k \in 0 .. MaxElevacion}

\* Eave heights tried (1.5 m, 6 m).
AlturasAleroEdificio == {6, 24}

\* Ridge heights tried (1 m, 6 m, 11 m, 16 m).
AlturasCumbreraEdificio == {4, 24, 44, 64}

\* Custom heights tried (2 m, 20 m).
AlturasSueltas == {8, 80}

\* alturas_personalizadas: None, or a list of custom heights in any order, with
\* repetitions.
AlturasPersonalizadas ==
    {NingunaLista}
    \cup {[ninguno |-> FALSE, valor |-> s] :
            s \in UNION {[1 .. n -> AlturasSueltas] : n \in 0 .. MaxPersonalizadas}}

\* aberturas: None, or one opening per wall and one for the roof (m2).
AberturasDadas ==
    {NingunaLista}
    \cup {Algun(<< f, i, 10 * Escala, d, c >>) :
            f \in {0 - 5 * Escala, 10 * Escala, MaxAbertura * Escala},
            i \in {0, MaxAbertura * Escala},
            d \in {0 - Escala, MaxAbertura * Escala},
            c \in {0, 120 * Escala, MaxAbertura * Escala}}

\* Edificio.__init__: volumen_interno defaults to the cached volumen, the
\* openings to five zeros.  volumen_dado keeps the volumen_interno argument as
\* it was passed.
ConstruirEdificio(ancho, longitud, elevacion, altura_alero, altura_cumbrera, tipo_cubierta, alturas_personalizadas, volumen_interno, aberturas) ==
    LET cubierta == ConstruirCubierta(ancho, longitud, altura_alero,
                                      altura_cumbrera, tipo_cubierta)
        e == [SinEdificio EXCEPT
                !.estado = "construido", !.ancho = ancho, !.longitud = longitud,
                !.elevacion = elevacion, !.altura_alero = altura_alero,
                !.tipo_cubierta = tipo_cubierta, !.cubierta = cubierta,
                !.altura_cumbrera = cubierta.altura_cumbrera,
                !.alturas_personalizadas = alturas_personalizadas,
                !.volumen_dado = volumen_interno,
                !.aberturas_dadas =
                    IF aberturas.ninguno THEN << 0, 0, 0, 0, 0 >>
                    ELSE aberturas.valor]
    IN IF volumen_interno.ninguno \/ volumen_interno.valor = 0
       THEN [e EXCEPT !.volumen = [evaluado |-> TRUE, valor |-> volumen_edificio(e)],
                      !.volumen_interno = volumen_edificio(e)]
       ELSE [e EXCEPT !.volumen_interno = volumen_interno.valor]

\* A building is constructed.  The custom heights are tried on buildings
\* without openings and the openings on buildings with the default heights.
NuevoEdificio ==
    /\ edificio.estado = "ninguno"
    /\ \E ancho \in AnchosEdificio, longitud \in {160},
          elevacion \in ElevacionesEdificio,
          altura_alero \in AlturasAleroEdificio,
          altura_cumbrera \in AlturasCumbreraEdificio,
          tipo_cubierta \in TipoCubierta,
          alturas_personalizadas \in AlturasPersonalizadas,
          volumen_interno \in {Ninguno, Algun(0), Algun(1000 * Escala)},
          aberturas \in AberturasDadas :
        /\ (~aberturas.ninguno =>
              /\ alturas_personalizadas.ninguno
              /\ elevacion = 0
              /\ ancho # 0
              /\ altura_alero = 24
              /\ altura_cumbrera \in {4, 64})
        /\ (~volumen_interno.ninguno => ~aberturas.ninguno)
        /\ edificio' = ConstruirEdificio(ancho, longitud, elevacion, altura_alero,
                                         altura_cumbrera, tipo_cubierta,
                                         alturas_personalizadas, volumen_interno,
                                         aberturas)
    /\ UNCHANGED << cubierta_aislada, topografia, rafaga, presiones_base,
                    cp_componentes, presion, presiones_edificio, agregado,
                    cartel, cubierta_sprfv >>

\* The roof of the building after a read of its cached altura_media, which
\* reads the cached angulo; nothing is cached when angulo raises.
CubiertaLeida(c) ==
    IF c.altura_media.evaluado THEN [resultado |-> "ok", cubierta |-> c]
    ELSE LET a == IF c.angulo.evaluado
                  THEN [resultado |-> "ok", valor |-> c.angulo.valor]
                  ELSE angulo_cubierta(c)
         IN IF a.resultado # "ok" THEN [resultado |-> a.resultado, cubierta |-> c]
            ELSE [resultado |-> "ok",
                  cubierta |->
                    [c EXCEPT
                       !.angulo = [evaluado |-> TRUE, valor |-> a.valor],
                       !.altura_media =
                           [evaluado |-> TRUE,
                            valor |-> altura_media_cubierta(c, a.valor)]]]

\* Reading edificio.cubierta.altura_media.
LeerAlturaMedia ==
    /\ edificio.estado = "construido"
    /\ LET r == CubiertaLeida(edificio.cubierta)
       IN edificio' = [edificio EXCEPT
                         !.cubierta = r.cubierta,
                         !.lectura = [propiedad |-> "altura_media",
                                      resultado |-> r.resultado, evaluadas |-> {}]]
    /\ UNCHANGED << cubierta_aislada, topografia, rafaga, presiones_base,
                    cp_componentes, presion, presiones_edificio, agregado,
                    cartel, cubierta_sprfv >>

\* Reading the cached property Edificio.alturas.
LeerAlturas ==
    /\ edificio.estado = "construido"
    /\ LET r == CubiertaLeida(edificio.cubierta)
       IN IF edificio.alturas.evaluado \/ r.resultado # "ok"
          THEN edificio' =
                 [edificio EXCEPT
                    !.lectura = [propiedad |-> "alturas",
                                 resultado |-> IF edificio.alturas.evaluado THEN "ok"
                                               ELSE r.resultado,
                                 evaluadas |-> {}]]
          ELSE edificio' =
                 [edificio EXCEPT
                    !.cubierta = r.cubierta,
                    !.alturas =
                        [evaluado |-> TRUE,
                         valor |-> array_alturas(
                                       edificio.elevacion, edificio.altura_cumbrera,
                                       edificio.alturas_personalizadas,
                                       << edificio.altura_alero,
                                          r.cubierta.altura_media.valor >>)],
                    !.lectura = [propiedad |-> "alturas", resultado |-> "ok",
                                 evaluadas |-> {}]]
    /\ UNCHANGED << cubierta_aislada, topografia, rafaga, presiones_base,
                    cp_componentes, presion, presiones_edificio, agregado,
                    cartel, cubierta_sprfv >>

\* The cached areas and aberturas after a read of aberturas.
AberturasLeidas(e) ==
    LET areas == IF e.areas.evaluado THEN e.areas.valor ELSE areas_edificio(e)
    IN [e EXCEPT
          !.areas = [evaluado |-> TRUE, valor |-> areas],
          !.aberturas =
              IF @.evaluado THEN @
              ELSE [evaluado |-> TRUE,
                    valor |-> aberturas_edificio(e.aberturas_dadas, areas)]]

\* Reading the cached property Edificio.abertura_total: sum(self.aberturas).
LeerAberturaTotal ==
    /\ edificio.estado = "construido"
    /\ LET e == AberturasLeidas(edificio)
       IN edificio' =
            [e EXCEPT
               !.abertura_total = [evaluado |-> TRUE, valor |-> Suma(e.aberturas.valor)],
               !.lectura = [propiedad |-> "abertura_total", resultado |-> "ok",
                            evaluadas |-> {}]]
    /\ UNCHANGED << cubierta_aislada, topografia, rafaga, presiones_base,
                    cp_componentes, presion, presiones_edificio, agregado,
                    cartel, cubierta_sprfv >>

\* Reading the cached property Edificio.area_total: sum(self.areas).
LeerAreaTotal ==
    /\ edificio.estado = "construido"
    /\ LET areas == IF edificio.areas.evaluado THEN edificio.areas.valor
                    ELSE areas_edificio(edificio)
       IN edificio' =
            [edificio EXCEPT
               !.areas = [evaluado |-> TRUE, valor |-> areas],
               !.area_total = [evaluado |-> TRUE, valor |-> Suma(areas)],
               !.lectura = [propiedad |-> "area_total", resultado |-> "ok",
                            evaluadas |-> {}]]
    /\ UNCHANGED << cubierta_aislada, topografia, rafaga, presiones_base,
                    cp_componentes, presion, presiones_edificio, agregado,
                    cartel, cubierta_sprfv >>

\* Reading the cached property Edificio.aberturas.
LeerAberturas ==
    /\ edificio.estado = "construido"
    /\ edificio' =
         [AberturasLeidas(edificio) EXCEPT
            !.lectura = [propiedad |-> "aberturas", resultado |-> "ok",
                         evaluadas |-> {}]]
    /\ UNCHANGED << cubierta_aislada, topografia, rafaga, presiones_base,
                    cp_componentes, presion, presiones_edificio, agregado,
                    cartel, cubierta_sprfv >>

(***************************************************************************)
(* zonda/cirsoc/cp/edificio.py and sse102/cirsoc/presiones/edificio.py :   *)
(* Paredes, Cubierta and Alero, which hold the SPRFV object of the method  *)
(* asked for and the components object.  `argumentos` keeps the arguments  *)
(* of the constructor call, `estado` how it ended.                         *)
(***************************************************************************)
MetodoSprfv == {"direccional", "envolvente"}

\* No object: an attribute that was never bound.
SinObjeto == [ninguno |-> TRUE]

SinAgregado ==
    [estado |-> "ninguno", modulo |-> "cp", clase |-> "Paredes",
     metodo_sprfv |-> "direccional", argumentos |-> << >>,
     sprfv |-> SinObjeto, componentes |-> SinObjeto]

\* The class of the SPRFV object and of the components object of each
\* aggregate of presiones.edificio.
ClaseSprfv(clase) ==
    CASE clase = "Paredes" -> "ParedesSprfvMetodoDireccional"
      [] clase = "Cubierta" -> "CubiertaSprfvMetodoDireccional"
      [] clase = "Alero" -> "AleroSprfvMetodoDireccional"

ClaseComponentes(clase) ==
    CASE clase = "Paredes" -> "ParedesComponentes"
      [] clase = "Cubierta" -> "CubiertaComponentes"
      [] clase = "Alero" -> "AleroComponentes"

\* The SPRFV object of cp.edificio the aggregate binds: __init__ stores the
\* arguments.
CpSprfv(clase, g) ==
    IF clase = "Paredes"
    THEN [ninguno |-> FALSE, clase |-> ClaseSprfv(clase),
          ancho |-> g.ancho, longitud |-> g.longitud]
    ELSE [ninguno |-> FALSE, clase |-> ClaseSprfv(clase),
          ancho |-> g.ancho, longitud |-> g.longitud,
          altura_media |-> g.altura_media, angulo |-> g.angulo,
          tipo_cubierta |-> g.tipo_cubierta]

\* The components object of cp.edificio the aggregate binds: ParedesComponentes
\* (which sets its reference figure in __init__), CubiertaComponentes with the
\* parapet, or CubiertaComponentes as an eave without parapet.
CpComponentes(clase, g) ==
    IF clase = "Paredes"
    THEN [ninguno |-> FALSE, clase |-> "ParedesComponentes",
          ancho |-> g.ancho, longitud |-> g.longitud,
          altura_media |-> g.altura_media, angulo_cubierta |-> g.angulo,
          componentes |-> g.componentes,
          referencia |-> IF g.altura_media <= 20 THEN "Figura 5A" ELSE "Figura 8"]
    ELSE [ninguno |-> FALSE, clase |-> "CubiertaComponentes",
          objeto |->
            [SinCpComponentes EXCEPT
               !.estado = "construida", !.ancho = g.ancho, !.longitud = g.longitud,
               !.altura_media = g.altura_media, !.angulo = g.angulo,
               !.tipo_cubierta = g.tipo_cubierta,
               !.parapeto = IF clase = "Alero" THEN 0 ELSE g.parapeto,
               !.es_alero = (clase = "Alero"),
               !.componentes = g.componentes]]

\* Paredes.__init__, Cubierta.__init__ and Alero.__init__ of cp.edificio on the
\* arguments g.
ConstruirAgregadoCp(clase, g, metodo_sprfv) ==
    LET llamada == [SinAgregado EXCEPT
                      !.modulo = "cp", !.clase = clase,
                      !.metodo_sprfv = metodo_sprfv, !.argumentos = g]
    IN IF metodo_sprfv = "direccional"
       THEN [llamada EXCEPT !.estado = "construido",
                            !.sprfv = CpSprfv(clase, g),
                            !.componentes = CpComponentes(clase, g)]
       ELSE [llamada EXCEPT !.estado = "NotImplementedError"]

\* Mutant: the builders are constructed first and the method is looked at last.
ConstruirAgregadoPresiones_MetodoAlFinal(clase, a, cp, metodo_sprfv) ==
    LET llamada == [SinAgregado EXCEPT
                      !.modulo = "presiones", !.clase = clase,
                      !.metodo_sprfv = metodo_sprfv,
                      !.argumentos = [a EXCEPT !.cp = cp]]
        sprfv == ConstruirPresiones([a EXCEPT !.clase = ClaseSprfv(clase),
                                              !.cp = cp.sprfv])
        componentes == ConstruirPresiones([a EXCEPT !.clase = ClaseComponentes(clase),
                                                    !.cp = cp.componentes])
    IN IF sprfv.estado # "construida"
       THEN [llamada EXCEPT !.estado = sprfv.estado]
       ELSE IF componentes.estado # "construida"
       THEN [llamada EXCEPT !.estado = componentes.estado,
                            !.sprfv = [ninguno |-> FALSE, objeto |-> sprfv]]
       ELSE IF metodo_sprfv # "direccional"
       THEN [llamada EXCEPT !.estado = "NotImplementedError",
                            !.sprfv = [ninguno |-> FALSE, objeto |-> sprfv]]
       ELSE [llamada EXCEPT
               !.estado = "construido",
               !.sprfv = [ninguno |-> FALSE, objeto |-> sprfv],
               !.componentes = [ninguno |-> FALSE, objeto |-> componentes]]

\* Paredes.__init__, Cubierta.__init__ and Alero.__init__ of presiones.edificio
\* on the builder attributes a and the cp aggregate cp: the SPRFV builder of
\* the method on cp.sprfv, then the components builder on cp.componentes; an
\* exception of a builder's __init__ leaves the constructor.
ConstruirAgregadoPresiones(clase, a, cp, metodo_sprfv) ==
    LET llamada == [SinAgregado EXCEPT
                      !.modulo = "presiones", !.clase = clase,
                      !.metodo_sprfv = metodo_sprfv,
                      !.argumentos = [a EXCEPT !.cp = cp]]
    IN IF metodo_sprfv = "direccional"
       THEN LET sprfv == ConstruirPresiones([a EXCEPT !.clase = ClaseSprfv(clase),
                                                      !.cp = cp.sprfv])
                componentes ==
                    ConstruirPresiones([a EXCEPT !.clase = ClaseComponentes(clase),
                                                 !.cp = cp.componentes])
            IN IF sprfv.estado # "construida"
               THEN [llamada EXCEPT !.estado = sprfv.estado]
               ELSE IF componentes.estado # "construida"
               THEN [llamada EXCEPT !.estado = componentes.estado,
                                    !.sprfv = [ninguno |-> FALSE, objeto |-> sprfv]]
               ELSE [llamada EXCEPT
                       !.estado = "construido",
                       !.sprfv = [ninguno |-> FALSE, objeto |-> sprfv],
                       !.componentes = [ninguno |-> FALSE, objeto |-> componentes]]
       ELSE [llamada EXCEPT !.estado = "NotImplementedError"]

\* An aggregate of cp.edificio is constructed.
NuevoAgregadoCp ==
    /\ agregado.estado = "ninguno"
    /\ \E clase \in {"Paredes", "Cubierta", "Alero"}, metodo_sprfv \in MetodoSprfv,
          altura_media \in {10, 30}, angulo \in {5, 20, 50},
          tipo_cubierta \in TipoCubierta, parapeto \in {0, 15},
          componentes \in ComponentesEdificio :
        agregado' =
            ConstruirAgregadoCp(
                clase,
                [ancho |-> 20, longitud |-> 30, altura_media |-> altura_media,
                 angulo |-> angulo, tipo_cubierta |-> tipo_cubierta,
                 parapeto |-> parapeto, componentes |-> componentes],
                metodo_sprfv)
    /\ UNCHANGED << cubierta_aislada, topografia, rafaga, presiones_base,
                    cp_componentes, presion, presiones_edificio, edificio,
                    cartel, cubierta_sprfv >>

\* An aggregate of presiones.edificio is constructed, with the cp objects of
\* its two builders.
NuevoAgregadoPresiones ==
    /\ agregado.estado = "ninguno"
    /\ \E clase \in {"Paredes", "Cubierta", "Alero"}, metodo_sprfv \in MetodoSprfv,
          paso \in Pasos, m \in 1 .. MaxNiveles + 1, v \in VelocidadesBasicas,
          c \in {"A", "C"}, cerramiento \in Cerramiento :
        LET altura_media == IF m <= MaxNiveles THEN paso * m
                            ELSE paso * MaxNiveles + 1
        IN \E cp_sprfv \in CpsPara(ClaseSprfv(clase), altura_media),
              cp_comp \in CpsPara(ClaseComponentes(clase), altura_media) :
            agregado' =
              ConstruirAgregadoPresiones(
                clase,
                [SinPresionesEdificio EXCEPT
                   !.alturas = [i \in 1 .. MaxNiveles |-> paso * i],
                   !.altura_media = altura_media,
                   !.altura_alero = IF clase = "Paredes" THEN paso ELSE 0,
                   !.tipo_cubierta = "dos aguas", !.categoria = "I",
                   !.velocidad = v,
                   !.alfa = ConstantesExposicion(c).alfa,
                   !.zg = ConstantesExposicion(c).zg,
                   !.factor_topografico = [i \in 1 .. MaxNiveles |-> Escala],
                   !.cerramiento = cerramiento, !.categoria_exp = c,
                   !.factores_rafaga = [paralelo |-> 8500, normal |-> 8800]],
                [sprfv |-> cp_sprfv, componentes |-> cp_comp],
                metodo_sprfv)
    /\ UNCHANGED << cubierta_aislada, topografia, rafaga, presiones_base,
                    cp_componentes, presion, presiones_edificio, edificio,
                    cartel, cubierta_sprfv >>

(***************************************************************************)
(* sse102/cirsoc/geometria/cartel.py : Cartel (the geometry) and           *)
(* zonda/cirsoc/cp/cartel.py : Cartel (the force coefficient).             *)
(* zonda/cirsoc/presiones/cartel.py : Cartel (the pressures).               *)
(* Lengths and heights are whole numbers of quarter metres, partial areas  *)
(* whole sixteenths of a square metre, ratios, coefficients and pressures  *)
(* (N/m2) are fixed-point, forces are whole hundredths of a newton.        *)
(***************************************************************************)
\* Bottom heights tried: 0, 0.5, ..., 0.5 * MaxAlturaInferior metres.
MaxAlturaInferior == 6

AlturasInferiores == {2 * k : k \in 0 .. MaxAlturaInferior}

\* Net heights tried (0 m, 1 m, 5 m, 10 m, 40 m).
AlturasNetas == {0, 4, 20, 40, 160}

\* Widths tried (0 m, 1 m, 5 m, 10 m, 40 m).
AnchosCartel == {0, 4, 20, 40, 160}

\* No pressure object of the sign.
SinPresionesCartel ==
    [ninguno |-> TRUE, alturas |-> << >>, areas_parciales |-> << >>,
     categoria_exp |-> "A", factor_rafaga |-> 0,
     valores |-> [evaluado |-> FALSE, valor |-> << >>],
     fuerzas_parciales |-> [evaluado |-> FALSE, valor |-> << >>],
     fuerza_total |-> SinValor]

SinCartel ==
    [estado |-> "ninguno", profundidad |-> 0, ancho |-> 0, altura_inferior |-> 0,
     altura_superior |-> 0, alturas_personalizadas |-> NingunaLista,
     altura_neta |-> SinValor,
     alturas |-> [evaluado |-> FALSE, valor |-> << >>],
     areas_parciales |-> [evaluado |-> FALSE, valor |-> << >>],
     cp |-> [ninguno |-> TRUE, altura_inferior |-> 0, altura_neta |-> 0,
             ancho |-> 0, es_parapeto |-> FALSE, cf |-> SinValor],
     presiones |-> SinPresionesCartel,
     lectura |-> SinLectura]

\* Mutant: above the last point the last segment is prolonged.
RECURSIVE interp_Prolongada(_, _, _)
interp_Prolongada(x, xp, fp) ==
    IF x <= xp[1] THEN fp[1]
    ELSE IF Len(xp) = 1 THEN fp[1]
    ELSE IF x <= xp[2] \/ Len(xp) = 2
    THEN fp[1] + MulDiv(x - xp[1], fp[2] - fp[1], xp[2] - xp[1])
    ELSE interp_Prolongada(x, Tail(xp), Tail(fp))

\* np.interp(x, xp, fp): linear between the points, fp[1] below xp[1] and the
\* last fp above the last xp.
RECURSIVE interp(_, _, _)
interp(x, xp, fp) ==
    IF x <= xp[1] THEN fp[1]
    ELSE IF Len(xp) = 1 THEN fp[1]
    ELSE IF x <= xp[2]
    THEN fp[1] + MulDiv(x - xp[1], fp[2] - fp[1], xp[2] - xp[1])
    ELSE interp(x, Tail(xp), Tail(fp))

\* The coefficients of both tables: 1.2, 1.3, 1.4, 1.5, 1.75, 1.85, 2.
CoeficientesFuerza == << 12000, 13000, 14000, 15000, 17500, 18500, 20000 >>

\* Mutant: a parapet is not told from a free-standing sign.
sobre_nivel_terreno_SinParapeto(c) == ~(4 * c.altura_inferior < c.altura_neta)

\* Cartel.sobre_nivel_terreno
sobre_nivel_terreno(c) == ~(4 * c.altura_inferior < c.altura_neta \/ c.es_parapeto)

\* Mutant: the elevated table is entered with height / width.
cf_sobre_nivel_terreno_AltoSobreAncho(altura_neta, ancho) ==
    IF ancho = 0 THEN [resultado |-> "ZeroDivisionError", valor |-> 0]
    ELSE [resultado |-> "ok",
          valor |-> interp(DivFx(altura_neta, ancho),
                           << 6 * Escala, 10 * Escala, 16 * Escala, 20 * Escala,
                              40 * Escala, 60 * Escala, 80 * Escala >>,
                           CoeficientesFuerza)]

\* Cartel._sobre_nivel_terreno on the net height and the width.
cf_sobre_nivel_terreno(altura_neta, ancho) ==
    LET m == Max(altura_neta, ancho)
        n == Min(altura_neta, ancho)
    IN IF n = 0 THEN [resultado |-> "ZeroDivisionError", valor |-> 0]
       ELSE [resultado |-> "ok",
             valor |-> interp(DivFx(m, n),
                              << 6 * Escala, 10 * Escala, 16 * Escala, 20 * Escala,
                                 40 * Escala, 60 * Escala, 80 * Escala >>,
                              CoeficientesFuerza)]

\* Cartel._a_nivel_terreno on the net height and the width.
cf_a_nivel_terreno(altura_neta, ancho) ==
    IF ancho = 0 THEN [resultado |-> "ZeroDivisionError", valor |-> 0]
    ELSE [resultado |-> "ok",
          valor |-> interp(DivFx(altura_neta, ancho),
                           << 3 * Escala, 5 * Escala, 8 * Escala, 10 * Escala,
                              20 * Escala, 30 * Escala, 40 * Escala >>,
                           CoeficientesFuerza)]

\* The body of the cached property Cartel.cf: the table method that is called
\* and what it returns.
cf(c) ==
    IF sobre_nivel_terreno(c)
    THEN [metodo |-> "_sobre_nivel_terreno",
          retorno |-> cf_sobre_nivel_terreno(c.altura_neta, c.ancho)]
    ELSE [metodo |-> "_a_nivel_terreno",
          retorno |-> cf_a_nivel_terreno(c.altura_neta, c.ancho)]

\* geometria.Cartel(profundidad, ancho, altura_inferior, altura_superior,
\*                  alturas_personalizadas)
NuevoCartel ==
    /\ cartel.estado = "ninguno"
    /\ \E ancho \in AnchosCartel, altura_inferior \in AlturasInferiores,
          neta \in AlturasNetas,
          alturas_personalizadas \in
              {NingunaLista, [ninguno |-> FALSE, valor |-> << 8, 80, 8 >>],
               [ninguno |-> FALSE, valor |-> << 80, 8 >>]} :
        cartel' = [SinCartel EXCEPT
                     !.estado = "construido", !.profundidad = 1, !.ancho = ancho,
                     !.altura_inferior = altura_inferior,
                     !.altura_superior = altura_inferior + neta,
                     !.alturas_personalizadas = alturas_personalizadas]
    /\ UNCHANGED << cubierta_aislada, topografia, rafaga, presiones_base,
                    cp_componentes, presion, presiones_edificio, edificio,
                    agregado, cubierta_sprfv >>

\* cp.cartel.Cartel.desde_cartel(cartel, es_parapeto), which reads the cached
\* altura_neta of the geometry.
CpDesdeCartel ==
    /\ cartel.estado = "construido"
    /\ cartel.cp.ninguno
    /\ \E es_parapeto \in BOOLEAN :
        LET neta == IF cartel.altura_neta.evaluado THEN cartel.altura_neta.valor
                    ELSE cartel.altura_superior - cartel.altura_inferior
        IN cartel' = [cartel EXCEPT
                        !.altura_neta = [evaluado |-> TRUE, valor |-> neta],
                        !.cp = [ninguno |-> FALSE,
                                altura_inferior |-> cartel.altura_inferior,
                                altura_neta |-> neta, ancho |-> cartel.ancho,
                                es_parapeto |-> es_parapeto, cf |-> SinValor]]
    /\ UNCHANGED << cubierta_aislada, topografia, rafaga, presiones_base,
                    cp_componentes, presion, presiones_edificio, edificio,
                    agregado, cubierta_sprfv >>

\* Reading the cached property cf of the cp object (also what calling it
\* returns); `evaluadas` names the table method that ran.
LeerCf ==
    /\ cartel.estado = "construido"
    /\ ~cartel.cp.ninguno
    /\ IF cartel.cp.cf.evaluado
       THEN cartel' = [cartel EXCEPT
                         !.lectura = [propiedad |-> "cf", resultado |-> "ok",
                                      evaluadas |-> {}]]
       ELSE LET r == cf(cartel.cp)
            IN cartel' =
                 [cartel EXCEPT
                    !.cp.cf = IF r.retorno.resultado = "ok"
                              THEN [evaluado |-> TRUE, valor |-> r.retorno.valor]
                              ELSE @,
                    !.lectura =
                        [propiedad |-> "cf", resultado |-> r.retorno.resultado,
                         evaluadas |-> {"cf", r.metodo}]]
    /\ UNCHANGED << cubierta_aislada, topografia, rafaga, presiones_base,
                    cp_componentes, presion, presiones_edificio, edificio,
                    agregado, cubierta_sprfv >>

\* Reading the cached property alturas of the geometry.
LeerAlturasCartel ==
    /\ cartel.estado = "construido"
    /\ cartel' =
         [cartel EXCEPT
            !.alturas = IF @.evaluado THEN @
                        ELSE [evaluado |-> TRUE,
                              valor |-> array_alturas(cartel.altura_inferior,
                                                      cartel.altura_superior,
                                                      cartel.alturas_personalizadas,
                                                      << >>)],
            !.lectura = [propiedad |-> "alturas", resultado |-> "ok",
                         evaluadas |-> {}]]
    /\ UNCHANGED << cubierta_aislada, topografia, rafaga, presiones_base,
                    cp_componentes, presion, presiones_edificio, edificio,
                    agregado, cubierta_sprfv >>

\* The geometry after a read of its cached alturas.
AlturasCartelLeidas(c) ==
    [c EXCEPT
       !.alturas = IF @.evaluado THEN @
                   ELSE [evaluado |-> TRUE,
                         valor |-> array_alturas(c.altura_inferior, c.altura_superior,
                                                 c.alturas_personalizadas, << >>)]]

\* geometria.Cartel.areas_parciales on the width and the heights:
\* ancho * (area_sup - area_inf) over zip(alturas, alturas[1:]).
areas_parciales(ancho, alturas) ==
    [i \in 1 .. Max(0, Len(alturas) - 1) |-> ancho * (alturas[i + 1] - alturas[i])]

\* The geometry after a read of its cached areas_parciales, which reads the
\* cached alturas.
AreasParcialesLeidas(c) ==
    LET g == AlturasCartelLeidas(c)
    IN [g EXCEPT
          !.areas_parciales =
              IF @.evaluado THEN @
              ELSE [evaluado |-> TRUE,
                    valor |-> areas_parciales(g.ancho, g.alturas.valor)]]

\* Reading the cached property areas_parciales of the geometry.
LeerAreasParciales ==
    /\ cartel.estado = "construido"
    /\ cartel' = [AreasParcialesLeidas(cartel) EXCEPT
                    !.lectura = [propiedad |-> "areas_parciales",
                                 resultado |-> "ok", evaluadas |-> {}]]
    /\ UNCHANGED << cubierta_aislada, topografia, rafaga, presiones_base,
                    cp_componentes, presion, presiones_edificio, edificio,
                    agregado, cubierta_sprfv >>

\* presiones.Cartel.desde_cartel(cartel, categoria, velocidad, rafaga,
\* factor_topografico, cf, categoria_exp): reads the cached alturas and
\* areas_parciales of the geometry and rafaga.factor; cf is the cp object.
\* The structure is of category II, the wind speed 45 m/s, the gust factor
\* 0.85 and the topographic factor 1 at every height.
PresionesDesdeCartel ==
    /\ cartel.estado = "construido"
    /\ ~cartel.cp.ninguno
    /\ cartel.presiones.ninguno
    /\ \E categoria_exp \in {"B", "C"}, factor \in {8500} :
        LET g == AreasParcialesLeidas(cartel)
        IN cartel' = [g EXCEPT
                        !.presiones =
                            [SinPresionesCartel EXCEPT
                               !.ninguno = FALSE,
                               !.alturas = g.alturas.valor,
                               !.areas_parciales = g.areas_parciales.valor,
                               !.categoria_exp = categoria_exp,
                               !.factor_rafaga = factor]]
    /\ UNCHANGED << cubierta_aislada, topografia, rafaga, presiones_base,
                    cp_componentes, presion, presiones_edificio, edificio,
                    agregado, cubierta_sprfv >>

\* PresionesBase.presiones_velocidad of the pressure object of the sign, with
\* the factor of directionality 0.85 and the height limit of case 2.
presiones_velocidad_cartel(p) ==
    LET k == ConstantesExposicion(p.categoria_exp)
        limite == calcular_altura_limite(p.categoria_exp, 2)
    IN [i \in 1 .. Len(p.alturas) |->
          MulFx(MulFx(MulFx(MulFx(6130, 8500),
                            kz(p.alturas[i], Metros(limite), k.alfa, Metros(k.zg))),
                      Escala),
                FactorImportancia("II")) * (45 * 45)]

\* presiones.Cartel.valores: presiones_velocidad * factor_rafaga * cf().
valores_cartel(p, coeficiente) ==
    LET q == presiones_velocidad_cartel(p)
    IN [i \in 1 .. Len(q) |-> MulFx(MulFx(q[i], p.factor_rafaga), coeficiente)]

\* The sign after a read of the cached valores of its pressure object, which
\* calls the cp object; nothing is cached when cf raises.
ValoresCartelLeidos(c) ==
    IF c.presiones.valores.evaluado THEN [resultado |-> "ok", cartel |-> c]
    ELSE LET r == IF c.cp.cf.evaluado
                  THEN [resultado |-> "ok", valor |-> c.cp.cf.valor]
                  ELSE cf(c.cp).retorno
         IN IF r.resultado # "ok" THEN [resultado |-> r.resultado, cartel |-> c]
            ELSE [resultado |-> "ok",
                  cartel |->
                    [c EXCEPT
                       !.cp.cf = [evaluado |-> TRUE, valor |-> r.valor],
                       !.presiones.valores =
                           [evaluado |-> TRUE,
                            valor |-> valores_cartel(c.presiones, r.valor)]]]

\* Mutant: each partial area takes the pressure at its lower height.
fuerzas_parciales_AlturaInferior(valores, areas) ==
    [i \in 1 .. Len(areas) |-> MulDiv(valores[i], areas[i], 1600)]

\* presiones.Cartel.fuerzas_parciales: valores[1:] * areas_parciales.
fuerzas_parciales(valores, areas) ==
    [i \in 1 .. Len(areas) |-> MulDiv(valores[i + 1], areas[i], 1600)]

\* The sign after a read of the cached fuerzas_parciales, which reads the
\* cached valores.
FuerzasParcialesLeidas(c) ==
    LET r == ValoresCartelLeidos(c)
    IN IF r.resultado # "ok" \/ r.cartel.presiones.fuerzas_parciales.evaluado THEN r
       ELSE [resultado |-> "ok",
             cartel |->
               [r.cartel EXCEPT
                  !.presiones.fuerzas_parciales =
                      [evaluado |-> TRUE,
                       valor |-> fuerzas_parciales(r.cartel.presiones.valores.valor,
                                                   r.cartel.presiones.areas_parciales)]]]

\* Reading the cached property valores of the pressure object.
LeerValoresCartel ==
    /\ cartel.estado = "construido"
    /\ ~cartel.presiones.ninguno
    /\ LET r == ValoresCartelLeidos(cartel)
       IN cartel' = [r.cartel EXCEPT
                       !.lectura = [propiedad |-> "valores",
                                    resultado |-> r.resultado, evaluadas |-> {}]]
    /\ UNCHANGED << cubierta_aislada, topografia, rafaga, presiones_base,
                    cp_componentes, presion, presiones_edificio, edificio,
                    agregado, cubierta_sprfv >>

\* Reading the cached property fuerzas_parciales of the pressure object.
LeerFuerzasParciales ==
    /\ cartel.estado = "construido"
    /\ ~cartel.presiones.ninguno
    /\ LET r == FuerzasParcialesLeidas(cartel)
       IN cartel' = [r.cartel EXCEPT
                       !.lectura = [propiedad |-> "fuerzas_parciales",
                                    resultado |-> r.resultado, evaluadas |-> {}]]
    /\ UNCHANGED << cubierta_aislada, topografia, rafaga, presiones_base,
                    cp_componentes, presion, presiones_edificio, edificio,
                    agregado, cubierta_sprfv >>

\* Reading the cached property fuerza_total: fuerzas_parciales.sum().
LeerFuerzaTotal ==
    /\ cartel.estado = "construido"
    /\ ~cartel.presiones.ninguno
    /\ LET r == FuerzasParcialesLeidas(cartel)
       IN cartel' =
            [r.cartel EXCEPT
               !.presiones.fuerza_total =
                   IF @.evaluado \/ r.resultado # "ok" THEN @
                   ELSE [evaluado |-> TRUE,
                         valor |-> Suma(r.cartel.presiones.fuerzas_parciales.valor)],
               !.lectura = [propiedad |-> "fuerza_total",
                            resultado |-> r.resultado, evaluadas |-> {}]]
    /\ UNCHANGED << cubierta_aislada, topografia, rafaga, presiones_base,
                    cp_componentes, presion, presiones_edificio, edificio,
                    agregado, cubierta_sprfv >>

(***************************************************************************)
(* zonda/cirsoc/cp/edificio.py : CubiertaSprfvMetodoDireccional.           *)
(* The plan dimensions and the mean roof height are whole numbers of       *)
(* quarter metres, the boundaries of the zones whole eighths of a metre,   *)
(* the angle whole degrees; areas, ratios and coefficients are fixed-point.*)
(***************************************************************************)
\* Widths tried (2 m, 10 m, 20 m).
AnchosSprfv == {8, 40, 80}

\* Lengths tried (3 m, 10 m, 30 m).
LongitudesSprfv == {12, 40, 120}

\* Mean roof heights tried (1 m, 5 m, 10 m).
AlturasMediasSprfv == {4, 20, 40}

\* Roof angles tried, in degrees.
AngulosSprfv == {0 - 5, 0, 9, 10, 12, 27, 50, 90}

SinCubiertaSprfv ==
    [estado |-> "ninguno", ancho |-> 0, longitud |-> 0, altura_media |-> 0,
     angulo |-> 0, tipo_cubierta |-> "plana",
     normal_como_paralelo |-> [evaluado |-> FALSE, valor |-> FALSE],
     zonas |-> [evaluado |-> FALSE, paralelo |-> << >>, normal |-> NingunaLista],
     valores |-> [evaluado |-> FALSE, paralelo |-> << >>, forma |-> "",
                  normal |-> << >>, negativa |-> 0, positiva |-> 0,
                  sotavento |-> 0],
     lectura |-> SinLectura]

\* distancias_codigo, in eighths of a metre: 0, h / 2, h, 2 h.
distancias_codigo(o) == {0, o.altura_media, 2 * o.altura_media, 4 * o.altura_media}

\* sorted() of a set of numbers.
RECURSIVE OrdenarConjunto(_)
OrdenarConjunto(S) ==
    IF S = {} THEN << >>
    ELSE LET m == CHOOSE x \in S : \A y \in S : x <= y
         IN << m >> \o OrdenarConjunto(S \ {m})

\* _zonas_cubierta(dimension_paralela, *distancias_extras), the arguments in
\* eighths of a metre: the pairs of consecutive distances up to
\* dimension_paralela.
zonas_cubierta(o, dimension_paralela, distancias_extras) ==
    LET distancias_filtradas ==
          OrdenarConjunto({dist \in distancias_codigo(o) \cup {dimension_paralela}
                                    \cup distancias_extras :
                             dist <= dimension_paralela})
    IN [i \in 1 .. Max(0, Len(distancias_filtradas) - 1) |->
          << distancias_filtradas[i], distancias_filtradas[i + 1] >>]

\* Mutant: an angle of exactly 10 degrees is taken with the shallow roofs.
normal_como_paralelo_DiezIncluido(o) == o.angulo <= 10

\* The body of the cached property normal_como_paralelo.
normal_como_paralelo(o) == o.angulo < 10

\* The body of the cached property zonas, given normal_como_paralelo.
zonas_sprfv(o, como_paralelo) ==
    [evaluado |-> TRUE,
     paralelo |-> zonas_cubierta(o, 2 * o.longitud, {}),
     normal |->
       IF como_paralelo
       THEN [ninguno |-> FALSE,
             valor |-> zonas_cubierta(o, 2 * o.ancho,
                                      {2 * o.longitud}
                                      \cup (IF o.tipo_cubierta = "dos aguas"
                                            THEN {o.ancho} ELSE {}))]
       ELSE NingunaLista]

\* _area_cp_cubierta: min(altura_media / 2, dimension_paralela) * dimension_normal.
area_cp_cubierta(altura_media, dimension_paralela, dimension_normal) ==
    (Min(altura_media, 2 * dimension_paralela) * dimension_normal * Escala) \div 32

\* np.interp(area, (10, 25, 100), (1.0, 0.9, 0.8))
reduccion_area(area) ==
    interp(area, << 10 * Escala, 25 * Escala, 100 * Escala >>, << Escala, 9000, 8000 >>)

\* _cp_cubierta_angulo_menor_diez(dimension_paralela, dimension_normal,
\*                                numero_de_zonas)
cp_cubierta_angulo_menor_diez(o, dimension_paralela, dimension_normal, numero_de_zonas) ==
    IF ~(1 <= numero_de_zonas /\ numero_de_zonas <= 4)
    THEN [resultado |-> "ValueError", metodo |-> "_cp_cubierta_angulo_menor_diez",
          valor |-> << >>]
    ELSE LET reduccion == reduccion_area(area_cp_cubierta(o.altura_media,
                                                          dimension_paralela,
                                                          dimension_normal))
             relacion == DivFx(o.altura_media, dimension_paralela)
             cp == << << 0 - 9000, MulFx(0 - 13000, reduccion) >>,
                      << 0 - 9000, 0 - 7000 >>,
                      << 0 - 5000, 0 - 7000 >>,
                      << 0 - 3000, 0 - 7000 >> >>
         IN [resultado |-> "ok", metodo |-> "_cp_cubierta_angulo_menor_diez",
             valor |-> [i \in 1 .. numero_de_zonas |->
                          interp(relacion, << 5000, Escala >>, cp[i])]]

\* The interpolation of a table of rows, first on the height to width ratio
\* within each row and then on the angle between the rows.
interp_angulo_relacion(o, angulos, filas) ==
    LET relacion == DivFx(o.altura_media, o.ancho)
    IN interp(o.angulo * Escala, angulos,
              [i \in 1 .. Len(filas) |->
                 interp(relacion, << 2500, 5000, Escala >>, filas[i])])

\* The angles of the windward tables.
AngulosBarlovento ==
    << 10 * Escala, 15 * Escala, 20 * Escala, 25 * Escala, 30 * Escala,
       35 * Escala, 45 * Escala, 60 * Escala, 80 * Escala >>

\* _cp_cubierta_barlovento
cp_cubierta_barlovento(o) ==
    IF o.angulo < 10
    THEN [resultado |-> "ValueError", metodo |-> "_cp_cubierta_barlovento",
          negativa |-> 0, positiva |-> 0]
    ELSE LET reduccion == reduccion_area(area_cp_cubierta(o.altura_media,
                                                          o.longitud, o.ancho))
         IN [resultado |-> "ok", metodo |-> "_cp_cubierta_barlovento",
             negativa |->
               interp_angulo_relacion(o, AngulosBarlovento,
                   << << 0 - 7000, 0 - 9000, MulFx(0 - 13000, reduccion) >>,
                      << 0 - 5000, 0 - 7000, 0 - 10000 >>,
                      << 0 - 3000, 0 - 4000, 0 - 7000 >>,
                      << 0 - 2000, 0 - 3000, 0 - 5000 >>,
                      << 0 - 2000, 0 - 2000, 0 - 3000 >>,
                      << 0, 0 - 2000, 0 - 2000 >>,
                      << 0, 0, 0 >>, << 0, 0, 0 >>, << 0, 0, 0 >> >>),
             positiva |->
               interp_angulo_relacion(o, AngulosBarlovento,
                   << << 0, 0, 0 >>, << 0, 0, 0 >>,
                      << 2000, 0, 0 >>,
                      << 3000, 2000, 0 >>,
                      << 3000, 2000, 2000 >>,
                      << 4000, 3000, 2000 >>,
                      << 4000, 4000, 3000 >>,
                      << 6000, 6000, 6000 >>,
                      << 8000, 8000, 8000 >> >>)]

\* _cp_cubierta_sotavento
cp_cubierta_sotavento(o) ==
    IF o.angulo < 10
    THEN [resultado |-> "ValueError", metodo |-> "_cp_cubierta_sotavento", valor |-> 0]
    ELSE [resultado |-> "ok", metodo |-> "_cp_cubierta_sotavento",
          valor |->
            interp_angulo_relacion(o, << 10 * Escala, 15 * Escala, 20 * Escala >>,
                << << 0 - 3000, 0 - 5000, 0 - 7000 >>,
                   << 0 - 5000, 0 - 5000, 0 - 6000 >>,
                   << 0 - 6000, 0 - 6000, 0 - 6000 >> >>)]

\* np.insert(cp, indice + 1, cp[indice]), indice counted from 1 here.
insertar_repetido(cp, indice) ==
    SubSeq(cp, 1, indice) \o << cp[indice] >> \o SubSeq(cp, indice + 1, Len(cp))

\* The coefficients for wind normal to the ridge of a roof taken as parallel.
cp_normal_como_paralelo(o, zonas) ==
    LET mitad_ancho == o.ancho
        restar_zona_y_sumar_cp == o.tipo_cubierta = "dos aguas"
                                  /\ mitad_ancho \notin distancias_codigo(o)
        numero_zonas == IF restar_zona_y_sumar_cp THEN Len(zonas) - 1 ELSE Len(zonas)
        cp_normal == cp_cubierta_angulo_menor_diez(o, o.ancho, o.longitud, numero_zonas)
    IN IF cp_normal.resultado # "ok" \/ ~restar_zona_y_sumar_cp THEN cp_normal
       ELSE LET indice == CHOOSE i \in 1 .. Len(zonas) : zonas[i][2] = mitad_ancho
            IN [cp_normal EXCEPT !.valor = insertar_repetido(@, indice)]

\* The body of the cached property valores, given zonas and
\* normal_como_paralelo: the outcome, the method that raised and the value.
valores_sprfv(o, zonas, como_paralelo) ==
    LET sin_valor == SinCubiertaSprfv.valores
        cp_paralelo == cp_cubierta_angulo_menor_diez(o, o.longitud, o.ancho,
                                                     Len(zonas.paralelo))
    IN IF cp_paralelo.resultado # "ok"
       THEN [resultado |-> cp_paralelo.resultado, metodo |-> cp_paralelo.metodo,
             valor |-> sin_valor]
       ELSE IF como_paralelo
       THEN LET cp_normal == cp_normal_como_paralelo(o, zonas.normal.valor)
            IN [resultado |-> cp_normal.resultado, metodo |-> cp_normal.metodo,
                valor |-> IF cp_normal.resultado # "ok" THEN sin_valor
                          ELSE [sin_valor EXCEPT
                                  !.evaluado = TRUE, !.forma = "zonas",
                                  !.paralelo = cp_paralelo.valor,
                                  !.normal = cp_normal.valor]]
       ELSE LET cp_barlovento == cp_cubierta_barlovento(o)
                cp_sotavento == cp_cubierta_sotavento(o)
            IN IF cp_barlovento.resultado # "ok"
               THEN [resultado |-> cp_barlovento.resultado,
                     metodo |-> cp_barlovento.metodo, valor |-> sin_valor]
               ELSE IF cp_sotavento.resultado # "ok"
               THEN [resultado |-> cp_sotavento.resultado,
                     metodo |-> cp_sotavento.metodo, valor |-> sin_valor]
               ELSE [resultado |-> "ok", metodo |-> "",
                     valor |-> [sin_valor EXCEPT
                                  !.evaluado = TRUE,
                                  !.forma = "barlovento y sotavento",
                                  !.paralelo = cp_paralelo.valor,
                                  !.negativa = cp_barlovento.negativa,
                                  !.positiva = cp_barlovento.positiva,
                                  !.sotavento = cp_sotavento.valor]]

\* The object after a read of its cached normal_como_paralelo.
NormalComoParaleloLeido(o) ==
    [o EXCEPT !.normal_como_paralelo =
                  IF @.evaluado THEN @
                  ELSE [evaluado |-> TRUE, valor |-> normal_como_paralelo(o)]]

\* The object after a read of its cached zonas, which reads the cached
\* normal_como_paralelo.
ZonasLeidas(o) ==
    IF o.zonas.evaluado THEN o
    ELSE LET n == NormalComoParaleloLeido(o)
         IN [n EXCEPT !.zonas = zonas_sprfv(n, n.normal_como_paralelo.valor)]

\* CubiertaSprfvMetodoDireccional(ancho, longitud, altura_media, angulo,
\*                                tipo_cubierta)
NuevaCubiertaSprfv ==
    /\ cubierta_sprfv.estado = "ninguno"
    /\ \E ancho \in AnchosSprfv, longitud \in LongitudesSprfv,
          altura_media \in AlturasMediasSprfv, angulo \in AngulosSprfv,
          tipo_cubierta \in TipoCubierta :
        cubierta_sprfv' =
            [SinCubiertaSprfv EXCEPT
               !.estado = "construida", !.ancho = ancho, !.longitud = longitud,
               !.altura_media = altura_media, !.angulo = angulo,
               !.tipo_cubierta = tipo_cubierta]
    /\ UNCHANGED << cubierta_aislada, topografia, rafaga, presiones_base,
                    cp_componentes, presion, presiones_edificio, edificio,
                    agregado, cartel >>

\* Reading the cached property normal_como_paralelo.
LeerNormalComoParalelo ==
    /\ cubierta_sprfv.estado = "construida"
    /\ cubierta_sprfv' =
         [NormalComoParaleloLeido(cubierta_sprfv) EXCEPT
            !.lectura = [propiedad |-> "normal_como_paralelo", resultado |-> "ok",
                         evaluadas |-> {}]]
    /\ UNCHANGED << cubierta_aislada, topografia, rafaga, presiones_base,
                    cp_componentes, presion, presiones_edificio, edificio,
                    agregado, cartel >>

\* Reading the cached property zonas.
LeerZonasSprfv ==
    /\ cubierta_sprfv.estado = "construida"
    /\ cubierta_sprfv' =
         [ZonasLeidas(cubierta_sprfv) EXCEPT
            !.lectura = [propiedad |-> "zonas", resultado |-> "ok",
                         evaluadas |-> {}]]
    /\ UNCHANGED << cubierta_aislada, topografia, rafaga, presiones_base,
                    cp_componentes, presion, presiones_edificio, edificio,
                    agregado, cartel >>

\* Reading the cached property valores (also what calling the object
\* returns), which reads the cached zonas and normal_como_paralelo; when a
\* method raises, `evaluadas` names it and valores is not cached.
LeerValoresSprfv ==
    /\ cubierta_sprfv.estado = "construida"
    /\ IF cubierta_sprfv.valores.evaluado
       THEN cubierta_sprfv' =
              [cubierta_sprfv EXCEPT
                 !.lectura = [propiedad |-> "valores", resultado |-> "ok",
                              evaluadas |-> {}]]
       ELSE LET o == ZonasLeidas(cubierta_sprfv)
                r == valores_sprfv(o, o.zonas, o.normal_como_paralelo.valor)
            IN cubierta_sprfv' =
                 [o EXCEPT
                    !.valores = r.valor,
                    !.lectura = [propiedad |-> "valores", resultado |-> r.resultado,
                                 evaluadas |-> IF r.resultado = "ok" THEN {}
                                               ELSE {r.metodo}]]
    /\ UNCHANGED << cubierta_aislada, topografia, rafaga, presiones_base,
                    cp_componentes, presion, presiones_edificio, edificio,
                    agregado, cartel >>

(***************************************************************************)
(* zonda/cirsoc/cp/aisladas.py : CubiertaAislada.valores.                  *)
(* Angles are whole half degrees, the blockage ratio whole tenths, the     *)
(* coefficients are fixed-point.                                           *)
(***************************************************************************)
\* np.interp(self.angulo, angulos, valores), the angles of the table in
\* degrees.
interp_angulo(o, angulos, valores) ==
    interp(o.angulo, [i \in 1 .. Len(angulos) |-> Grados(angulos[i])], valores)

\* np.interp(self.relacion_bloqueo, [0, 1], valores) for each row of the table,
\* then np.interp on the angle.
interp_bloqueo_angulo(o, angulos, filas) ==
    interp_angulo(o, angulos,
                  [i \in 1 .. Len(filas) |->
                     interp(o.relacion_bloqueo, << 0, 10 >>, filas[i])])

\* The angles of Tabla I.2, in degrees.
AngulosDosAguas == << 0 - 20, 0 - 15, 0 - 10, 0 - 5, 5, 10, 15, 20, 25, 30 >>

\* The angles of Tabla I.1, in degrees.
AngulosUnAgua == << 0, 5, 10, 15, 20, 25, 30 >>

\* One entry of the result: the maximum and the minimum coefficient.
Extremos(maximo, minimo) == [max |-> maximo, min |-> minimo]

\* CubiertaAislada._cpn_dos_aguas: the global coefficients and those of the
\* zones A, B, C, D, BC and BD.
cpn_dos_aguas(o) ==
    LET maximo_a == interp_angulo(o, AngulosDosAguas,
                        << 8000, 6000, 6000, 5000, 6000, 7000, 9000, 11000, 12000, 13000 >>)
        maximo_b == interp_angulo(o, AngulosDosAguas,
                        << 16000, 15000, 14000, 15000, 18000, 18000, 19000, 19000, 19000, 19000 >>)
        maximo_c == interp_angulo(o, AngulosDosAguas,
                        << 6000, 7000, 8000, 8000, 13000, 14000, 14000, 15000, 16000, 16000 >>)
        maximo_d == interp_angulo(o, AngulosDosAguas,
                        << 17000, 14000, 11000, 8000, 4000, 4000, 4000, 4000, 5000, 7000 >>)
        minimo_a == interp_bloqueo_angulo(o, AngulosDosAguas,
                        << << 0 - 9000, 0 - 15000 >>, << 0 - 8000, 0 - 15000 >>,
                           << 0 - 8000, 0 - 14000 >>, << 0 - 5000, 0 - 14000 >>,
                           << 0 - 6000, 0 - 12000 >>, << 0 - 7000, 0 - 12000 >>,
                           << 0 - 9000, 0 - 12000 >>, << 0 - 12000, 0 - 12000 >>,
                           << 0 - 14000, 0 - 12000 >>, << 0 - 14000, 0 - 12000 >> >>)
        minimo_b == interp_bloqueo_angulo(o, AngulosDosAguas,
                        << << 0 - 13000, 0 - 24000 >>, << 0 - 13000, 0 - 27000 >>,
                           << 0 - 13000, 0 - 25000 >>, << 0 - 13000, 0 - 23000 >>,
                           << 0 - 14000, 0 - 20000 >>, << 0 - 15000, 0 - 18000 >>,
                           << 0 - 17000, 0 - 16000 >>, << 0 - 18000, 0 - 15000 >>,
                           << 0 - 19000, 0 - 14000 >>, << 0 - 19000, 0 - 13000 >> >>)
        minimo_c == interp_bloqueo_angulo(o, AngulosDosAguas,
                        << << 0 - 16000, 0 - 24000 >>, << 0 - 16000, 0 - 26000 >>,
                           << 0 - 15000, 0 - 25000 >>, << 0 - 16000, 0 - 24000 >>,
                           << 0 - 14000, 0 - 18000 >>, << 0 - 14000, 0 - 16000 >>,
                           << 0 - 14000, 0 - 13000 >>, << 0 - 14000, 0 - 12000 >>,
                           << 0 - 14000, 0 - 11000 >>, << 0 - 14000, 0 - 11000 >> >>)
        minimo_d == interp_bloqueo_angulo(o, AngulosDosAguas,
                        << << 0 - 6000, 0 - 12000 >>, << 0 - 6000, 0 - 12000 >>,
                           << 0 - 6000, 0 - 12000 >>, << 0 - 6000, 0 - 12000 >>,
                           << 0 - 11000, 0 - 15000 >>, << 0 - 14000, 0 - 16000 >>,
                           << 0 - 18000, 0 - 17000 >>, << 0 - 20000, 0 - 17000 >>,
                           << 0 - 20000, 0 - 16000 >>, << 0 - 20000, 0 - 16000 >> >>)
    IN [z \in {"global", "A", "B", "C", "D", "BC", "BD"} |->
          CASE z = "global" ->
                 Extremos(interp_angulo(o, AngulosDosAguas,
                              << 7000, 5000, 4000, 3000, 3000, 4000, 4000, 6000, 7000, 9000 >>),
                          interp_bloqueo_angulo(o, AngulosDosAguas,
                              << << 0 - 7000, 0 - 15000 >>, << 0 - 6000, 0 - 15000 >>,
                                 << 0 - 6000, 0 - 14000 >>, << 0 - 5000, 0 - 14000 >>,
                                 << 0 - 6000, 0 - 12000 >>, << 0 - 7000, 0 - 12000 >>,
                                 << 0 - 8000, 0 - 12000 >>, << 0 - 9000, 0 - 12000 >>,
                                 << 0 - 10000, 0 - 12000 >>, << 0 - 10000, 0 - 12000 >> >>))
            [] z = "A" -> Extremos(maximo_a, minimo_a)
            [] z = "B" -> Extremos(maximo_b, minimo_b)
            [] z = "C" -> Extremos(maximo_c, minimo_c)
            [] z = "D" -> Extremos(maximo_d, minimo_d)
            [] z = "BC" -> Extremos(Max(maximo_b, maximo_c), Min(minimo_b, minimo_c))
            [] z = "BD" -> Extremos(Max(maximo_b, maximo_d), Min(minimo_b, minimo_d))]

\* CubiertaAislada._cpn_un_agua: the global coefficients and those of the
\* zones A, B, C and BC; the minima of the global, A and C rows depend on the
\* position of the blockage.
cpn_un_agua(o) ==
    LET bajo == o.posicion_bloqueo = "alero bajo"
        maximo_b == interp_angulo(o, AngulosUnAgua,
                        << 18000, 21000, 24000, 27000, 29000, 31000, 32000 >>)
        maximo_c == interp_angulo(o, AngulosUnAgua,
                        << 11000, 13000, 16000, 18000, 21000, 23000, 24000 >>)
        minimo_b == interp_bloqueo_angulo(o, AngulosUnAgua,
                        << << 0 - 13000, 0 - 18000 >>, << 0 - 17000, 0 - 26000 >>,
                           << 0 - 20000, 0 - 26000 >>, << 0 - 24000, 0 - 29000 >>,
                           << 0 - 28000, 0 - 29000 >>, << 0 - 32000, 0 - 25000 >>,
                           << 0 - 38000, 0 - 20000 >> >>)
        minimo_c == interp_bloqueo_angulo(o, AngulosUnAgua,
                        IF bajo
                        THEN << << 0 - 14000, 0 - 22000 >>, << 0 - 18000, 0 - 26000 >>,
                                << 0 - 21000, 0 - 27000 >>, << 0 - 25000, 0 - 28000 >>,
                                << 0 - 29000, 0 - 27000 >>, << 0 - 32000, 0 - 25000 >>,
                                << 0 - 36000, 0 - 23000 >> >>
                        ELSE << << 0 - 14000, 0 - 22000 >>, << 0 - 18000, 0 - 21000 >>,
                                << 0 - 21000, 0 - 18000 >>, << 0 - 25000, 0 - 16000 >>,
                                << 0 - 29000, 0 - 15000 >>, << 0 - 32000, 0 - 14000 >>,
                                << 0 - 36000, 0 - 12000 >> >>)
    IN [z \in {"global", "A", "B", "C", "BC"} |->
          CASE z = "global" ->
                 Extremos(interp_angulo(o, AngulosUnAgua,
                              << 2000, 4000, 5000, 7000, 8000, 10000, 12000 >>),
                          interp_bloqueo_angulo(o, AngulosUnAgua,
                              IF bajo
                              THEN << << 0 - 5000, 0 - 12000 >>, << 0 - 7000, 0 - 14000 >>,
                                      << 0 - 9000, 0 - 14000 >>, << 0 - 11000, 0 - 15000 >>,
                                      << 0 - 13000, 0 - 15000 >>, << 0 - 16000, 0 - 14000 >>,
                                      << 0 - 18000, 0 - 14000 >> >>
                              ELSE << << 0 - 5000, 0 - 12000 >>, << 0 - 7000, 0 - 12000 >>,
                                      << 0 - 9000, 0 - 11000 >>, << 0 - 11000, 0 - 10000 >>,
                                      << 0 - 13000, 0 - 9000 >>, << 0 - 16000, 0 - 8000 >>,
                                      << 0 - 18000, 0 - 8000 >> >>))
            [] z = "A" ->
                 Extremos(interp_angulo(o, AngulosUnAgua,
                              << 5000, 8000, 12000, 14000, 17000, 20000, 22000 >>),
                          interp_bloqueo_angulo(o, AngulosUnAgua,
                              IF bajo
                              THEN << << 0 - 6000, 0 - 13000 >>, << 0 - 11000, 0 - 14000 >>,
                                      << 0 - 15000, 0 - 14000 >>, << 0 - 18000, 0 - 15000 >>,
                                      << 0 - 22000, 0 - 15000 >>, << 0 - 26000, 0 - 14000 >>,
                                      << 0 - 30000, 0 - 14000 >> >>
                              ELSE << << 0 - 6000, 0 - 13000 >>, << 0 - 11000, 0 - 12000 >>,
                                      << 0 - 15000, 0 - 11000 >>, << 0 - 18000, 0 - 10000 >>,
                                      << 0 - 22000, 0 - 9000 >>, << 0 - 26000, 0 - 8000 >>,
                                      << 0 - 30000, 0 - 8000 >> >>))
            [] z = "B" -> Extremos(maximo_b, minimo_b)
            [] z = "C" -> Extremos(maximo_c, minimo_c)
            [] z = "BC" -> Extremos(Max(maximo_b, maximo_c), Min(minimo_b, minimo_c))]

\* The body of the cached property valores.
valores_aislada(o) ==
    IF o.tipo_cubierta = "un agua" THEN cpn_un_agua(o) ELSE cpn_dos_aguas(o)

\* Reading the cached property valores of a constructed isolated roof.
LeerValoresAislada ==
    /\ cubierta_aislada.resultado = "ok"
    /\ ~cubierta_aislada.valores.evaluado
    /\ cubierta_aislada' =
         [cubierta_aislada EXCEPT
            !.valores = [evaluado |-> TRUE, valor |-> valores_aislada(cubierta_aislada)]]
    /\ UNCHANGED << topografia, rafaga, presiones_base,
                    cp_componentes, presion, presiones_edificio, edificio,
                    agregado, cartel, cubierta_sprfv >>

Init ==
    /\ cubierta_aislada = SinCubiertaAislada
    /\ topografia = SinTopografia
    /\ rafaga = SinRafaga
    /\ presiones_base = SinPresionesBase
    /\ cp_componentes = SinCpComponentes
    /\ presion = SinPresion
    /\ presiones_edificio = SinPresionesEdificio
    /\ edificio = SinEdificio
    /\ agregado = SinAgregado
    /\ cartel = SinCartel
    /\ cubierta_sprfv = SinCubiertaSprfv

NextAislada ==
    \/ NuevaCubiertaAislada
    \/ LeerValoresAislada

SpecAislada == Init /\ [][NextAislada]_vars

NextTopografia ==
    \/ NuevaTopografia
    \/ LeerFactorTopografia

SpecTopografia == Init /\ [][NextTopografia]_vars

NextRafaga ==
    \/ NuevaRafaga
    \/ LeerFactorRafaga

SpecRafaga == Init /\ [][NextRafaga]_vars

NextPresionesBase ==
    \/ NuevaPresionesBase
    \/ LeerCoeficientesExposicion
    \/ LeerPresionesVelocidad
    \/ AsignarVelocidad

SpecPresionesBase == Init /\ [][NextPresionesBase]_vars

NextCubiertaComponentes ==
    \/ NuevaCubiertaComponentes
    \/ LeerReferenciaComponentes
    \/ LeerValoresComponentes

SpecCubiertaComponentes == Init /\ [][NextCubiertaComponentes]_vars

NextPresionesEdificio ==
    \/ NuevaPresionesEdificio
    \/ LeerValoresEdificio

SpecPresionesEdificio == Init /\ [][NextPresionesEdificio]_vars

NextEdificio ==
    \/ NuevoEdificio
    \/ LeerAlturaMedia
    \/ LeerAlturas
    \/ LeerAberturas
    \/ LeerAberturaTotal
    \/ LeerAreaTotal

SpecEdificio == Init /\ [][NextEdificio]_vars

NextAgregado ==
    \/ NuevoAgregadoCp
    \/ NuevoAgregadoPresiones

SpecAgregado == Init /\ [][NextAgregado]_vars

NextCartel ==
    \/ NuevoCartel
    \/ CpDesdeCartel
    \/ LeerCf
    \/ LeerAlturasCartel
    \/ LeerAreasParciales
    \/ PresionesDesdeCartel
    \/ LeerValoresCartel
    \/ LeerFuerzasParciales
    \/ LeerFuerzaTotal

SpecCartel == Init /\ [][NextCartel]_vars

NextCubiertaSprfv ==
    \/ NuevaCubiertaSprfv
    \/ LeerNormalComoParalelo
    \/ LeerZonasSprfv
    \/ LeerValoresSprfv

SpecCubiertaSprfv == Init /\ [][NextCubiertaSprfv]_vars

NextPresionMinima == AplicarPresionMinima

SpecPresionMinima == Init /\ [][NextPresionMinima]_vars

(***************************************************************************)
(* Claims                                                                  *)
(***************************************************************************)
\* The normative conditions under which the Reglamento gives no net-pressure
\* coefficients for an isolated roof (angles in half degrees).
SinLineamientosAislada(c) ==
    \/ c.tipo_cubierta \notin {"dos aguas", "un agua"}
    \/ c.tipo_cubierta = "dos aguas" /\ Grados(-5) < c.angulo /\ c.angulo < Grados(5)
    \/ c.tipo_cubierta = "un agua" /\ (c.angulo < Grados(0) \/ c.angulo > Grados(30))

BloqueoValido(c) == 0 <= c.relacion_bloqueo /\ c.relacion_bloqueo <= 10

\* C1: with a blockage ratio in [0,1], constructing CubiertaAislada raises
\* ErrorLineamientos exactly when the roof type is neither duo-pitch nor
\* mono-pitch, or it is duo-pitch with -5 < angle < 5, or mono-pitch with
\* angle < 0 or angle > 30; in every other case construction succeeds.  In
\* particular duo-pitch at 0 degrees raises and duo-pitch at 6 degrees succeeds.
C1_ErrorLineamientosExacto ==
    (cubierta_aislada.resultado # "ninguno" /\ BloqueoValido(cubierta_aislada)) =>
        /\ SinLineamientosAislada(cubierta_aislada)
                => cubierta_aislada.resultado = "ErrorLineamientos"
        /\ ~SinLineamientosAislada(cubierta_aislada)
                => cubierta_aislada.resultado = "ok"
        /\ (cubierta_aislada.tipo_cubierta = "dos aguas" /\ cubierta_aislada.angulo = Grados(0))
                => cubierta_aislada.resultado = "ErrorLineamientos"
        /\ (cubierta_aislada.tipo_cubierta = "dos aguas" /\ cubierta_aislada.angulo = Grados(6))
                => cubierta_aislada.resultado = "ok"

\* A duo-pitch roof at exactly 5 degrees, blockage ratio 0.5, was constructed.
C1_Testigo ==
    /\ cubierta_aislada.resultado = "ok"
    /\ cubierta_aislada.tipo_cubierta = "dos aguas"
    /\ cubierta_aislada.angulo = Grados(5)
    /\ cubierta_aislada.relacion_bloqueo = 5

\* C2: a blockage ratio outside [0,1] always gives ValueError and never
\* ErrorLineamientos, also when the roof type or the angle is unsupported;
\* a blockage ratio inside [0,1] never gives ValueError.
C2_ErroresDisjuntos ==
    cubierta_aislada.resultado # "ninguno" =>
        (cubierta_aislada.resultado = "ValueError" <=> ~BloqueoValido(cubierta_aislada))

\* An invalid blockage ratio together with an unsupported roof type and angle.
C2_Testigo ==
    /\ cubierta_aislada.resultado = "ValueError"
    /\ cubierta_aislada.relacion_bloqueo = 11
    /\ cubierta_aislada.tipo_cubierta = "plana"
    /\ cubierta_aislada.angulo = Grados(0)

\* Every entry of the factor the last read returned is exactly 1, one entry per
\* requested height.
FactorTopograficoUno ==
    /\ topografia.lectura.resultado = "ok"
    /\ Len(topografia.factor.kzt) = Len(topografia.alturas.z)
    /\ \A i \in 1 .. Len(topografia.factor.kzt) : topografia.factor.kzt[i] = Escala

\* The three conditions of the applicability gate, as the Reglamento states them
\* (feature height / crest distance >= 0.2 read as 5 * height >= distance).
CompuertaTopografica ==
    /\ topografia.considerar_topografia
    /\ 5 * topografia.altura_terreno >= topografia.distancia_cresta
    /\ \/ topografia.categoria_exp \in {"A", "B"} /\ topografia.altura_terreno > 20
       \/ topografia.categoria_exp \in {"C", "D"} /\ topografia.altura_terreno > 5

C4_KztAlMenosUno ==
    ( /\ topografia.lectura.propiedad = "factor"
      /\ topografia.lectura.resultado = "ok"
      /\ topografia.altura_terreno > 0
      /\ topografia.distancia_cresta > 0
      /\ topografia.distancia_barlovento_sotavento > 0 )
        => \A i \in 1 .. Len(topografia.factor.kzt) :
                topografia.alturas.z[i] > 0 => topografia.factor.kzt[i] >= Escala

\* C5: with the simplified flag set Rafaga.factor is exactly 0.85 whatever the
\* other inputs are, and reading it evaluates no other gust computation
\* (parametros, factor_q), so inputs on which those raise do not matter.
C5_FactorSimplificado ==
    (rafaga.lectura.propiedad = "factor" /\ rafaga.factor_g_simplificado) =>
        /\ rafaga.lectura.resultado = "ok"
        /\ rafaga.factor.evaluado
        /\ rafaga.factor.valor = 8500
        /\ rafaga.lectura.evaluadas \subseteq {"factor"}
        /\ ~rafaga.parametros.evaluado
        /\ ~rafaga.factor_q.evaluado

\* The simplified factor was read on a flexible structure whose natural
\* frequency, damping ratio and wind speed are all 0.
C5_Testigo ==
    /\ rafaga.lectura.propiedad = "factor"
    /\ rafaga.factor_g_simplificado
    /\ rafaga.flexibilidad = "flexible"
    /\ rafaga.frecuencia = 0
    /\ rafaga.beta = 0
    /\ rafaga.velocidad = 0
    /\ rafaga.factor.valor = 8500

\* C6: presion_minima maps every pressure p to a value of magnitude at least 500
\* N/m2 with the sign of p: p itself when |p| >= 500, +500 or -500 with p's sign
\* when 0 < |p| < 500, and no input, p = 0 included, gives a magnitude below 500.
C6_PisoEnTodaPresion ==
    presion.estado = "aplicada" =>
        /\ Abs(presion.resultado) >= 500 * Escala
        /\ Signo(presion.resultado) = Signo(presion.presion)
        /\ (Abs(presion.presion) >= 500 * Escala => presion.resultado = presion.presion)
        /\ (Abs(presion.presion) < 500 * Escala
              => Abs(presion.resultado) = 500 * Escala)

\* The first area of a table entry of the figure `referencia`.
PrimerArea(e, referencia) ==
    IF e.con_area THEN e.area[1][1] ELSE area_figura(referencia)[1]

\* The last area of a table entry of the figure `referencia`.
UltimaArea(e, referencia) ==
    IF e.con_area THEN e.area[Len(e.area)][2] ELSE area_figura(referencia)[2]

\* The coefficient tabulated for the first area.
PrimerCoeficiente(e) == IF e.anidado THEN e.cp[1][1] ELSE e.cp[1]

\* The coefficient tabulated for the last area.
UltimoCoeficiente(e) == IF e.anidado THEN e.cp[Len(e.cp)][2] ELSE e.cp[2]

\* C9: the coefficient CubiertaComponentes.valores gives a component in a zone is
\* exactly the one tabulated for the smallest area when the component's area is
\* at or below it, and exactly the one tabulated for the largest area when the
\* area is at or above it, in single-segment tables and in the eave's
\* multi-segment tables; in a multi-segment table an area equal to a segment's
\* upper area gets that segment's last coefficient.
C9_InterpolacionAcotada ==
    (cp_componentes.valores.evaluado /\ ~cp_componentes.valores.ninguno) =>
        LET ref == cp_componentes.referencia.valor
            tabla == caso_cp(cp_componentes, ref)
            areas == cp_componentes.componentes.areas
            valor == cp_componentes.valores.valor
        IN /\ Len(valor) = Len(areas)
           /\ \A n \in 1 .. Len(areas) :
                /\ DOMAIN valor[n] = DOMAIN tabla
                /\ \A zona \in DOMAIN tabla :
                     /\ (areas[n] <= PrimerArea(tabla[zona], ref)
                           => valor[n][zona] = PrimerCoeficiente(tabla[zona]))
                     /\ (areas[n] >= UltimaArea(tabla[zona], ref)
                           => valor[n][zona] = UltimoCoeficiente(tabla[zona]))
                     /\ (tabla[zona].anidado =>
                           \A i \in 1 .. Len(tabla[zona].area) :
                               areas[n] = tabla[zona].area[i][2]
                                 => valor[n][zona] = tabla[zona].cp[i][2])

\* C9 witness: an eave under Figura 5B with one component of 0.5 m2 and one of
\* 59.5 m2: zone 1 (two segments) gets -1.7 and -1.1, zone 3 (one segment) gets
\* -2.8 and -0.8.
C9_Testigo ==
    /\ cp_componentes.valores.evaluado
    /\ ~cp_componentes.valores.ninguno
    /\ cp_componentes.es_alero
    /\ cp_componentes.referencia.valor = "Figura 5B"
    /\ cp_componentes.componentes.areas = << 5, 595 >>
    /\ cp_componentes.valores.valor[1]["1"] = 0 - 17000
    /\ cp_componentes.valores.valor[2]["1"] = 0 - 11000
    /\ cp_componentes.valores.valor[1]["3"] = 0 - 28000
    /\ cp_componentes.valores.valor[2]["3"] = 0 - 8000

\* C10: the coefficients coeficientes_exposicion returns for an object (one
\* exposure category, one height limit) are non-decreasing in the height, and
\* every height at or below the height limit gets the coefficient of the limit.
C10_KzNoDecreciente ==
    presiones_base.lectura.propiedad = "coeficientes_exposicion" =>
        LET alturas == presiones_base.alturas
            coef == presiones_base.leido
            limite == presiones_base.altura_limite.valor
        IN \A i, j \in 1 .. Len(alturas) :
             /\ (alturas[i] <= alturas[j] => coef[i] <= coef[j])
             /\ (alturas[i] <= limite /\ alturas[j] <= limite => coef[i] = coef[j])
             /\ (alturas[i] <= limite
                   => coef[i] = kz(limite, limite, presiones_base.alfa,
                                   presiones_base.zg))

\* C10 witness: category B with the limit of 10 m, heights 3 m and 12 m: the first
\* gets the coefficient of 10 m, the second a strictly larger one.
C10_Testigo ==
    /\ presiones_base.lectura.propiedad = "coeficientes_exposicion"
    /\ presiones_base.categoria_exp = "B"
    /\ presiones_base.altura_limite.valor = 10
    /\ presiones_base.alturas = << 3, 12 >>
    /\ presiones_base.leido[1] < presiones_base.leido[2]

\* The position of the mean roof height among the builder's heights.
IndiceMedia(o) == CHOOSE i \in 1 .. Len(o.alturas) : o.alturas[i] = o.altura_media

\* qh: the velocity pressure at the mean roof height.
Qh(o) == presiones_velocidad_edificio(o)[IndiceMedia(o)]

\* Whether the builder's pressures come from ParedesComponentes under Figura 8.
ParedesFigura8(o) == o.clase = "ParedesComponentes" /\ o.cp.referencia = "Figura 8"

\* The wall a wall pressure belongs to.
ParedDe(o, c) == IF o.clase = "ParedesComponentes" THEN c[1] ELSE c[2]

\* qz: the velocity pressures a pressure is taken at: on a windward wall the ones
\* of the heights (up to the eave for wind normal to the ridge of a roof that is
\* not mono-pitch, in the SPRFV), elsewhere the one at mean roof height.
Qz(o, c) ==
    IF (o.clase = "ParedesSprfvMetodoDireccional" \/ ParedesFigura8(o))
       /\ ParedDe(o, c) = "barlovento"
    THEN IF o.clase = "ParedesSprfvMetodoDireccional" /\ c[1] = "normal"
            /\ o.tipo_cubierta # "un agua"
         THEN Filtrar(presiones_velocidad_edificio(o),
                      [i \in 1 .. Len(o.alturas) |-> o.alturas[i] <= o.altura_alero])
         ELSE presiones_velocidad_edificio(o)
    ELSE << Qh(o) >>

\* G: the gust factor of the wind direction, 1 for components.
GDe(o, c) == IF o.clase \in ClasesComponentes THEN Escala ELSE o.factores_rafaga[c[1]]

\* Cp: the coefficient a pressure is computed from.
CpDe(o, c) == IF ParedesFigura8(o) THEN o.cp.valores[<< c[2], c[3] >>] ELSE o.cp.valores[c]

\* The values of a returned pressure.
ValoresDe(p) ==
    IF "presion" \in DOMAIN p THEN {p.presion[i] : i \in 1 .. Len(p.presion)}
    ELSE {p.pos[i] : i \in 1 .. Len(p.pos)} \cup {p.neg[i] : i \in 1 .. Len(p.neg)}

\* A returned pressure is the unfloored one: q - qh*GCpi and q + qh*GCpi with
\* q = qz*G*Cp, or q alone for an eave.
SinPiso(o, c) ==
    LET p == o.valores.presiones[c]
        interna == MulFx(Qh(o), o.gcpi.valor)
    IN IF "presion" \in DOMAIN p
       THEN p.presion = << MulFx(MulFx(Qh(o), GDe(o, c)), CpDe(o, c)) >>
       ELSE /\ Len(p.pos) = Len(Qz(o, c))
            /\ Len(p.neg) = Len(Qz(o, c))
            /\ \A i \in 1 .. Len(Qz(o, c)) :
                 LET q == MulFx(MulFx(Qz(o, c)[i], GDe(o, c)), CpDe(o, c))
                 IN p.pos[i] = q - interna /\ p.neg[i] = q + interna

\* C7: every components-and-cladding pressure a builder returns is floored (it
\* is what presion_minima gives), for roofs, eaves and walls, under Figura 5A
\* and under Figura 8 alike; every SPRFV pressure is the unfloored one.
C7_PisoEnComponentes ==
    (presiones_edificio.valores.evaluado /\ ~presiones_edificio.valores.ninguno) =>
        \A c \in DOMAIN presiones_edificio.valores.presiones :
            IF presiones_edificio.clase \in ClasesComponentes
            THEN \A v \in ValoresDe(presiones_edificio.valores.presiones[c]) :
                    v = presion_minima(v)
            ELSE SinPiso(presiones_edificio, c)

\* Whether the builder's pressures are unfloored pairs.
ParesSinPiso(o) ==
    /\ o.valores.evaluado
    /\ ~o.valores.ninguno
    /\ \/ o.clase \in {"CubiertaSprfvMetodoDireccional", "ParedesSprfvMetodoDireccional"}
       \/ ParedesFigura8(o)

\* C8: an unfloored pair is (q - qh*GCpi, q + qh*GCpi) with q = qz*G*Cp and qh
\* the velocity pressure at mean roof height whatever the height of qz; so the
\* difference of its components is 2*qh*GCpi, the first is at most the second
\* when qh*GCpi >= 0, and they are equal for an open enclosure.
C8_ParDePresiones ==
    ParesSinPiso(presiones_edificio) =>
        LET o == presiones_edificio
            interna == MulFx(Qh(o), o.gcpi.valor)
        IN \A c \in DOMAIN o.valores.presiones :
             LET p == o.valores.presiones[c]
             IN /\ SinPiso(o, c)
                /\ \A i \in 1 .. Len(p.pos) :
                     /\ p.neg[i] - p.pos[i] = 2 * interna
                     /\ (interna >= 0 => p.pos[i] <= p.neg[i])
                     /\ (o.cerramiento = "abierto" => p.pos[i] = p.neg[i])

\* C8 witness: SPRFV walls of a closed building whose mean roof height is the
\* third height: the windward pressures for wind parallel to the ridge are taken
\* at the three heights, differ between the first and the third, and each pair
\* is 2*qh*0.18 apart.
C8_Testigo ==
    /\ ParesSinPiso(presiones_edificio)
    /\ presiones_edificio.clase = "ParedesSprfvMetodoDireccional"
    /\ presiones_edificio.cerramiento = "cerrado"
    /\ presiones_edificio.bool_indices_altura_media = << FALSE, FALSE, TRUE >>
    /\ LET p == presiones_edificio.valores.presiones[<< "paralelo", "barlovento" >>]
       IN /\ Len(p.pos) = 3
          /\ p.pos[1] < p.pos[3]
          /\ p.neg[1] - p.pos[1] = 2 * MulFx(Qh(presiones_edificio), 1800)
          /\ p.neg[1] > p.pos[1]


(***************************************************************************)
(* C11                                                                     *)
(***************************************************************************)
\* The "Case 1" height limit of Kz: 30 for exposure A, 10 for B, 5 for C and D.
LimiteCaso1(categoria_exp) ==
    CASE categoria_exp = "A" -> 30
      [] categoria_exp = "B" -> 10
      [] categoria_exp \in {"C", "D"} -> 5

\* The "Case 2" height limit of Kz: 5 for every exposure category.
LimiteCaso2(categoria_exp) == 5

\* C11, as stated: the height limit a constructed builder uses in Kz is the
\* Case 1 limit for the SPRFV builders and the Case 2 limit for the
\* components-and-cladding builders.
C11_LimitePorVariante ==
    presiones_edificio.estado = "construida" =>
        presiones_edificio.altura_limite.valor =
            IF presiones_edificio.clase \in ClasesComponentes
            THEN LimiteCaso2(presiones_edificio.categoria_exp)
            ELSE LimiteCaso1(presiones_edificio.categoria_exp)

\* C11, amended: the height limit a constructed builder uses in Kz is the
\* Case 2 limit (5 for every category) for the SPRFV builders and the Case 1
\* limit (30 for A, 10 for B, 5 for C and D) for the components-and-cladding
\* builders, and the velocity pressures are those of Kz with that limit.
C11_LimitePorVarianteEnmendado ==
    presiones_edificio.estado = "construida" =>
        LET o == presiones_edificio
            limite == IF o.clase \in ClasesComponentes
                      THEN LimiteCaso1(o.categoria_exp)
                      ELSE LimiteCaso2(o.categoria_exp)
        IN /\ o.altura_limite.valor = limite
           /\ presiones_velocidad_edificio(o) =
                presiones_velocidad(o, limite, FactorImportancia(o.categoria))

\* A components builder for exposure A (limit 30) has been constructed.
C11_Testigo ==
    /\ presiones_edificio.estado = "construida"
    /\ presiones_edificio.clase = "ParedesComponentes"
    /\ presiones_edificio.categoria_exp = "A"
    /\ presiones_edificio.altura_limite.valor = 30


(***************************************************************************)
(* C12                                                                     *)
(***************************************************************************)
\* Whether the sequence is strictly increasing.
EstrictamenteCreciente(s) == \A i \in 1 .. Len(s) - 1 : s[i] < s[i + 1]

\* C12: the height array of a building is strictly increasing and has the
\* elevation, the ridge height and the eave height, for the default step and
\* for every custom height list, with repeated or out-of-range values.
C12_AlturasCrecientes ==
    edificio.alturas.evaluado =>
        /\ EstrictamenteCreciente(edificio.alturas.valor)
        /\ Contiene(edificio.alturas.valor, edificio.elevacion)
        /\ Contiene(edificio.alturas.valor, edificio.altura_cumbrera)
        /\ Contiene(edificio.alturas.valor, edificio.altura_alero)


(***************************************************************************)
(* C13                                                                     *)
(***************************************************************************)
\* The branches of the decision on (angle, mean height, is-eave), each with the
\* outcome the read of `referencia` must have.
RamasReferencia(o) ==
    << [aplica |-> o.angulo <= 10 /\ o.altura_media > 20 /\ ~o.es_alero,
        resultado |-> "ok", valor |-> "Figura 8"],
       [aplica |-> o.angulo <= 10 /\ ~(o.altura_media > 20 /\ ~o.es_alero),
        resultado |-> "ok", valor |-> "Figura 5B"],
       [aplica |-> 10 < o.angulo /\ o.angulo <= 30,
        resultado |-> "ok", valor |-> "Figura 5B (cont.) 1"],
       [aplica |-> 30 < o.angulo /\ o.angulo <= 45,
        resultado |-> "ok", valor |-> "Figura 5B (cont.) 2"],
       [aplica |-> o.angulo > 45,
        resultado |-> "ErrorLineamientos", valor |-> ""] >>

\* A duo-pitch or flat roof, or an eave, whose reference figure has just been
\* read.
ReferenciaDosAguasLeida ==
    /\ cp_componentes.estado = "construida"
    /\ cp_componentes.lectura.propiedad = "referencia"
    /\ (cp_componentes.tipo_cubierta # "un agua" \/ cp_componentes.es_alero)

\* C13: for a duo-pitch or flat roof and for every eave exactly one branch of
\* the decision applies, the read of the reference figure ends as that branch
\* says (Figura 8, 5B, 5B (cont.) 1, 5B (cont.) 2, or ErrorLineamientos above
\* 45 degrees, never another error), and the figure is cached.
C13_ReferenciaTotal ==
    ReferenciaDosAguasLeida =>
        LET o == cp_componentes
            ramas == RamasReferencia(o)
        IN /\ Cardinality({i \in 1 .. Len(ramas) : ramas[i].aplica}) = 1
           /\ \A i \in 1 .. Len(ramas) :
                ramas[i].aplica =>
                    /\ o.lectura.resultado = ramas[i].resultado
                    /\ (ramas[i].resultado = "ok" =>
                           /\ o.referencia.evaluado
                           /\ o.referencia.valor = ramas[i].valor)
                    /\ (ramas[i].resultado # "ok" => ~o.referencia.evaluado)

\* The reference figure of an eave steeper than 45 degrees has been read and
\* the read has raised ErrorLineamientos.
C13_Testigo ==
    /\ ReferenciaDosAguasLeida
    /\ cp_componentes.es_alero
    /\ cp_componentes.angulo > 45
    /\ cp_componentes.lectura.resultado = "ErrorLineamientos"


(***************************************************************************)
(* C14                                                                     *)
(***************************************************************************)
\* The coefficient the figure tabulates for zone 3 itself, interpolated at the
\* area of the component n: the entry of `casos` (of `casos_alero` for an eave)
\* under the key 3.
Zona3Tabulada(o, n) ==
    LET ref == o.referencia.valor
        propia == IF o.es_alero THEN (casos_alero(ref) @@ casos(ref))["3"]
                  ELSE casos(ref)["3"]
        areas == IF propia.con_area THEN propia.area ELSE area_figura(ref)
        filtrado == seleccionar_cp_area(propia.cp, areas, propia.anidado,
                                        o.componentes.areas[n])
    IN calcular_cp_componente(filtrado.cp, filtrado.area, o.componentes.areas[n])

\* The coefficients of the components have been computed.
ValoresComponentesLeidos ==
    cp_componentes.valores.evaluado /\ ~cp_componentes.valores.ninguno

\* C14, as stated: behind a parapet above 1 m the coefficient of zone 3 is that
\* of zone 2 for every component, whichever figure applies; with a parapet of
\* at most 1 m zone 3 keeps its own tabulated coefficient.
C14_Zona3ComoZona2 ==
    ValoresComponentesLeidos =>
        \A n \in 1 .. Len(cp_componentes.componentes.areas) :
            LET valor == cp_componentes.valores.valor[n]
            IN IF cp_componentes.parapeto > 10
               THEN valor["3"] = valor["2"]
               ELSE valor["3"] = Zona3Tabulada(cp_componentes, n)

\* C14, amended: behind a parapet above 1 m and under Figura 5B or Figura 8 the
\* coefficient of zone 3 is that of zone 2 for every component; under every
\* other figure, and with a parapet of at most 1 m, zone 3 keeps its own
\* tabulated coefficient.
C14_Zona3ComoZona2Enmendado ==
    ValoresComponentesLeidos =>
        \A n \in 1 .. Len(cp_componentes.componentes.areas) :
            LET valor == cp_componentes.valores.valor[n]
            IN IF /\ cp_componentes.parapeto > 10
                  /\ cp_componentes.referencia.valor \in {"Figura 5B", "Figura 8"}
               THEN valor["3"] = valor["2"]
               ELSE valor["3"] = Zona3Tabulada(cp_componentes, n)

\* Coefficients of a roof computed behind a parapet above 1 m under Figura 5B:
\* zone 3 has the coefficient of zone 2 and not its own tabulated one.
C14_Testigo ==
    /\ ValoresComponentesLeidos
    /\ cp_componentes.parapeto > 10
    /\ Len(cp_componentes.componentes.areas) > 0
    /\ cp_componentes.referencia.valor = "Figura 5B"
    /\ ~cp_componentes.es_alero
    /\ cp_componentes.valores.valor[1]["3"] = cp_componentes.valores.valor[1]["2"]
    /\ cp_componentes.valores.valor[1]["3"] # Zona3Tabulada(cp_componentes, 1)


(***************************************************************************)
(* C15                                                                     *)
(***************************************************************************)
\* C15: a constructor of Paredes, Cubierta or Alero (coefficients or pressures)
\* called with the envelope method ends in NotImplementedError for every set of
\* arguments, with no SPRFV object and no components object constructed, and
\* so in no ErrorLineamientos, ValueError or error of a builder.
C15_EnvolventeSiempreFalla ==
    (agregado.estado # "ninguno" /\ agregado.metodo_sprfv = "envolvente") =>
        /\ agregado.estado = "NotImplementedError"
        /\ agregado.estado \notin {"ErrorLineamientos", "ValueError", "IndexError"}
        /\ agregado.sprfv.ninguno
        /\ agregado.componentes.ninguno

\* A pressure aggregate asked for with the envelope method and heights that
\* do not include the mean roof height, which a builder would reject.
C15_Testigo ==
    /\ agregado.estado = "NotImplementedError"
    /\ agregado.modulo = "presiones"
    /\ agregado.metodo_sprfv = "envolvente"
    /\ \A i \in 1 .. Len(agregado.argumentos.alturas) :
         agregado.argumentos.alturas[i] # agregado.argumentos.altura_media


(***************************************************************************)
(* C16, C17                                                                *)
(***************************************************************************)
\* The cached cf of the sign has just been evaluated.
CfEvaluado ==
    /\ cartel.lectura.propiedad = "cf"
    /\ "cf" \in cartel.lectura.evaluadas

\* The sign is not a parapet and its bottom height is at least 25 % of its net
\* height.
CartelElevado ==
    ~cartel.cp.es_parapeto /\ 4 * cartel.cp.altura_inferior >= cartel.cp.altura_neta

\* C16: the table of the force coefficient is chosen from the sign itself, the
\* elevated one exactly when the sign is not a parapet and its bottom height is
\* at least 25 % of its net height and the ground-level one otherwise; with a
\* positive net height and width Cf is within [1.2, 2.0]; and a sign of net
\* height 10 m and width 5 m with its bottom below 2.5 m uses the ground-level
\* table and has Cf = 1.2.
C16_TablaDerivada ==
    CfEvaluado =>
        /\ ("_sobre_nivel_terreno" \in cartel.lectura.evaluadas) = CartelElevado
        /\ ("_a_nivel_terreno" \in cartel.lectura.evaluadas) = ~CartelElevado
        /\ (cartel.cp.altura_neta > 0 /\ cartel.cp.ancho > 0) =>
              /\ cartel.lectura.resultado = "ok"
              /\ cartel.cp.cf.evaluado
              /\ 12000 <= cartel.cp.cf.valor
              /\ cartel.cp.cf.valor <= 20000
        /\ (/\ cartel.cp.altura_neta = Metros(10)
            /\ cartel.cp.ancho = Metros(5)
            /\ 2 * cartel.cp.altura_inferior < Metros(5)) =>
              /\ "_a_nivel_terreno" \in cartel.lectura.evaluadas
              /\ cartel.cp.cf.valor = 12000

\* The coefficient of a free-standing sign of 10 m by 5 m with its bottom at
\* 2 m has been read.
C16_Testigo ==
    /\ CfEvaluado
    /\ cartel.cp.altura_neta = Metros(10)
    /\ cartel.cp.ancho = Metros(5)
    /\ cartel.cp.altura_inferior = Metros(2)
    /\ ~cartel.cp.es_parapeto
    /\ cartel.cp.cf.valor = 12000

\* The coefficient the table that was used gives with the net height and the
\* width exchanged.
CfIntercambiado ==
    IF "_sobre_nivel_terreno" \in cartel.lectura.evaluadas
    THEN cf_sobre_nivel_terreno(cartel.cp.ancho, cartel.cp.altura_neta)
    ELSE cf_a_nivel_terreno(cartel.cp.ancho, cartel.cp.altura_neta)

\* C17, as stated: in the ground-level and in the elevated case, exchanging the
\* net height and the width of the sign (the table kept) does not change Cf.
C17_CfSimetrico ==
    (CfEvaluado /\ cartel.cp.altura_neta > 0 /\ cartel.cp.ancho > 0) =>
        cartel.cp.cf.valor = CfIntercambiado.valor

\* C17, amended: in the elevated case Cf is a function of max(h, w) / min(h, w)
\* and exchanging the net height and the width does not change it; in the
\* ground-level case Cf is the table's value at h / w, the net height over the
\* width.
C17_CfSimetricoEnmendado ==
    (CfEvaluado /\ cartel.cp.altura_neta > 0 /\ cartel.cp.ancho > 0) =>
        IF "_sobre_nivel_terreno" \in cartel.lectura.evaluadas
        THEN /\ cartel.cp.cf.valor = CfIntercambiado.valor
             /\ cartel.cp.cf.valor =
                  interp(DivFx(Max(cartel.cp.altura_neta, cartel.cp.ancho),
                               Min(cartel.cp.altura_neta, cartel.cp.ancho)),
                         << 60000, 100000, 160000, 200000, 400000, 600000,
                            800000 >>,
                         << 12000, 13000, 14000, 15000, 17500, 18500, 20000 >>)
        ELSE cartel.cp.cf.valor =
               interp(DivFx(cartel.cp.altura_neta, cartel.cp.ancho),
                      << 30000, 50000, 80000, 100000, 200000, 300000, 400000 >>,
                      << 12000, 13000, 14000, 15000, 17500, 18500, 20000 >>)

\* The coefficient of an elevated sign of 1 m by 10 m has been read: 1.3, as
\* for 10 m by 1 m.
C17_Testigo ==
    /\ CfEvaluado
    /\ "_sobre_nivel_terreno" \in cartel.lectura.evaluadas
    /\ cartel.cp.altura_neta = Metros(1)
    /\ cartel.cp.ancho = Metros(10)
    /\ cartel.cp.cf.valor = 13000


(***************************************************************************)
(* C18                                                                     *)
(***************************************************************************)
\* The tabulated internal pressure coefficient of an enclosure.
GcpiTabulado(cerramiento) ==
    CASE cerramiento = "cerrado" -> 1800
      [] cerramiento = "parcialmente cerrado" -> 5500
      [] cerramiento = "abierto" -> 0

\* The conditions of the reduction: it is asked for, the enclosure is
\* partially closed, the internal volume is given and the total opening area
\* is given and not zero.
ReduccionAplica(o) ==
    /\ o.reducir_gcpi
    /\ o.cerramiento = "parcialmente cerrado"
    /\ ~o.volumen_interno.ninguno
    /\ ~o.aberturas_totales.ninguno
    /\ o.aberturas_totales.valor # 0

\* C18: the internal pressure coefficient of a constructed builder is the
\* tabulated one of its enclosure (0.18, 0.55, 0) times the reduction factor;
\* the factor is exactly 1 unless every condition of the reduction holds and
\* never above 1, so GCpi is never above the tabulated value and is the
\* tabulated value for closed and open buildings.
C18_GcpiReducido ==
    presiones_edificio.estado = "construida" =>
        LET o == presiones_edificio
            tabulado == GcpiTabulado(o.cerramiento)
        IN /\ o.gcpi.evaluado
           /\ o.gcpi.valor = MulFx(tabulado, o.factor_reduccion_gcpi.valor)
           /\ (~ReduccionAplica(o) => o.factor_reduccion_gcpi.valor = Escala)
           /\ o.factor_reduccion_gcpi.valor <= Escala
           /\ o.gcpi.valor <= tabulado
           /\ (o.cerramiento \in {"cerrado", "abierto"} => o.gcpi.valor = tabulado)

\* A partially closed building whose GCpi has been reduced below 0.55.
C18_Testigo ==
    /\ presiones_edificio.estado = "construida"
    /\ ReduccionAplica(presiones_edificio)
    /\ presiones_edificio.factor_reduccion_gcpi.valor < Escala
    /\ presiones_edificio.gcpi.valor < 5500
    /\ presiones_edificio.gcpi.valor > 0


(***************************************************************************)
(* C19                                                                     *)
(***************************************************************************)
\* The slope of a roof of nonzero width is at most tan(10 degrees) = 0.1763:
\* rise / width for a mono-pitch roof, 2 * rise / width for a duo-pitch one.
PendienteHastaDiez(c) ==
    LET altura == c.altura_cumbrera - c.altura_alero
        doble == IF c.tipo_cubierta = "dos aguas" THEN 2 * altura ELSE altura
    IN doble * Escala <= 1763 * c.ancho

\* C19: once the mean roof height of a building has been read, it is the eave
\* height when the roof slope angle is at most 10 degrees, exactly 10 degrees
\* and every flat roof included, and the average of the eave and ridge heights
\* otherwise; the roof 30 m wide with the eave at 6 m and the ridge at 16 m,
\* duo-pitch, has the mean roof height 11 m.
C19_AlturaMedia ==
    (edificio.estado = "construido" /\ edificio.cubierta.altura_media.evaluado) =>
        LET c == edificio.cubierta
            media == c.altura_media.valor
        IN /\ c.ancho # 0
           /\ (PendienteHastaDiez(c) => media = c.altura_alero)
           /\ (~PendienteHastaDiez(c) => 2 * media = c.altura_alero + c.altura_cumbrera)
           /\ (c.tipo_cubierta = "plana" => media = c.altura_alero)
           /\ altura_media_cubierta(c, 10 * Escala) = c.altura_alero
           /\ (/\ c.ancho = Metros(30) /\ c.altura_alero = Metros(6)
               /\ c.altura_cumbrera = Metros(16) /\ c.tipo_cubierta = "dos aguas"
               => media = Metros(11))

\* The mean roof height of the duo-pitch roof 30 m wide with the eave at 6 m
\* and the ridge at 16 m has been read and is 11 m.
C19_Testigo ==
    /\ edificio.estado = "construido"
    /\ edificio.cubierta.ancho = Metros(30)
    /\ edificio.cubierta.altura_alero = Metros(6)
    /\ edificio.cubierta.altura_cumbrera = Metros(16)
    /\ edificio.cubierta.tipo_cubierta = "dos aguas"
    /\ edificio.cubierta.altura_media.evaluado
    /\ edificio.cubierta.altura_media.valor = Metros(11)


(***************************************************************************)
(* C20                                                                     *)
(***************************************************************************)
\* The four walls and the roof.
Caras == 1 .. 5

\* C20: once the openings of a building whose face areas are not negative
\* have been read, the opening of each of the four walls and of the roof is
\* between 0 and the area of its face: 0 for a negative input, the area of
\* the face for an input above it and the input itself otherwise; and the
\* total opening, once read, is not above the total area.
C20_AberturasAcotadas ==
    (/\ edificio.estado = "construido"
     /\ edificio.aberturas.evaluado
     /\ \A i \in DOMAIN edificio.areas.valor : edificio.areas.valor[i] >= 0) =>
        LET dadas == edificio.aberturas_dadas
            areas == edificio.areas.valor
            aberturas == edificio.aberturas.valor
        IN /\ edificio.areas.evaluado
           /\ DOMAIN areas = Caras
           /\ DOMAIN aberturas = Caras
           /\ \A i \in Caras :
                /\ 0 <= aberturas[i] /\ aberturas[i] <= areas[i]
                /\ (dadas[i] < 0 => aberturas[i] = 0)
                /\ (dadas[i] > areas[i] => aberturas[i] = areas[i])
                /\ (0 <= dadas[i] /\ dadas[i] <= areas[i] => aberturas[i] = dadas[i])
           /\ (edificio.abertura_total.evaluado =>
                 /\ edificio.abertura_total.valor = Suma(aberturas)
                 /\ edificio.abertura_total.valor <= Suma(areas))
           /\ (edificio.abertura_total.evaluado /\ edificio.area_total.evaluado =>
                 edificio.abertura_total.valor <= edificio.area_total.valor)

\* The openings and both totals of a building have been read; one opening
\* was given negative, one above the area of its face and one within it.
C20_Testigo ==
    /\ edificio.estado = "construido"
    /\ edificio.aberturas.evaluado
    /\ edificio.abertura_total.evaluado
    /\ edificio.area_total.evaluado
    /\ \A i \in DOMAIN edificio.areas.valor : edificio.areas.valor[i] >= 0
    /\ edificio.aberturas_dadas[1] < 0
    /\ edificio.aberturas_dadas[2] > edificio.areas.valor[2]
    /\ edificio.aberturas_dadas[3] > 0
    /\ edificio.aberturas_dadas[3] < edificio.areas.valor[3]
    /\ edificio.aberturas.valor[1] = 0
    /\ edificio.aberturas.valor[2] = edificio.areas.valor[2]
    /\ edificio.aberturas.valor[3] = edificio.aberturas_dadas[3]


(***************************************************************************)
(* C21                                                                     *)
(***************************************************************************)
\* C21: the internal volume of a building is the volumen_interno argument
\* whenever one was passed, 0 included, and the frontal wall area times the
\* length when none was passed.
C21_VolumenInterno ==
    edificio.estado = "construido" =>
        /\ (~edificio.volumen_dado.ninguno =>
              edificio.volumen_interno = edificio.volumen_dado.valor)
        /\ (edificio.volumen_dado.ninguno =>
              edificio.volumen_interno = (area_frontal(edificio) * edificio.longitud) \div 4)


(***************************************************************************)
(* C22                                                                     *)
(***************************************************************************)
\* The pressure object of the sign was made from heights that are strictly
\* increasing from the bottom of the sign to its top.
AlturasDeAbajoArriba ==
    /\ cartel.estado = "construido"
    /\ ~cartel.presiones.ninguno
    /\ EstrictamenteCreciente(cartel.presiones.alturas)
    /\ cartel.presiones.alturas[1] = cartel.altura_inferior
    /\ cartel.presiones.alturas[Len(cartel.presiones.alturas)] = cartel.altura_superior

\* C22: for a sign whose sampled heights are strictly increasing from its
\* bottom to its top there is one partial area per pair of consecutive
\* heights, the width times their difference and not negative, and the
\* partial areas add up to the width times the net height; once read, there
\* is one partial force per partial area, the pressure at the upper height
\* of the pair times the partial area, and the total force is their sum.
C22_FuerzaPorTramos ==
    AlturasDeAbajoArriba =>
        LET p == cartel.presiones
            n == Len(p.alturas) - 1
        IN /\ Len(p.areas_parciales) = n
           /\ \A i \in 1 .. n :
                /\ p.areas_parciales[i] = cartel.ancho * (p.alturas[i + 1] - p.alturas[i])
                /\ p.areas_parciales[i] >= 0
           /\ Suma(p.areas_parciales)
                = cartel.ancho * (cartel.altura_superior - cartel.altura_inferior)
           /\ (p.valores.evaluado => Len(p.valores.valor) = n + 1)
           /\ (p.fuerzas_parciales.evaluado =>
                 /\ Len(p.fuerzas_parciales.valor) = n
                 /\ \A i \in 1 .. n :
                      p.fuerzas_parciales.valor[i]
                        = MulDiv(p.valores.valor[i + 1], p.areas_parciales[i], 1600))
           /\ (p.fuerza_total.evaluado =>
                 p.fuerza_total.valor = Suma(p.fuerzas_parciales.valor))

\* The total force of a sign with custom heights has been read: three
\* partial forces, none zero, on four sampled heights.
C22_Testigo ==
    /\ AlturasDeAbajoArriba
    /\ ~cartel.alturas_personalizadas.ninguno
    /\ Len(cartel.presiones.alturas) = 4
    /\ cartel.presiones.fuerza_total.evaluado
    /\ Len(cartel.presiones.fuerzas_parciales.valor) = 3
    /\ \A i \in 1 .. 3 : cartel.presiones.fuerzas_parciales.valor[i] > 0
    /\ cartel.presiones.fuerza_total.valor > 0


(***************************************************************************)
(* C23                                                                     *)
(***************************************************************************)
\* C23: a read of the gust-effect factor never raises: on the simplified,
\* the rigid and the flexible branch and for every input, a natural
\* frequency of 0, a damping ratio of 0 and zero dimensions included, it
\* returns a number.
C23_FactorSinErrores ==
    rafaga.lectura.propiedad = "factor" =>
        /\ rafaga.lectura.resultado = "ok"
        /\ rafaga.factor.evaluado


(***************************************************************************)
(* C24                                                                     *)
(***************************************************************************)
\* C24: a derived property of an engine object returns at every read the
\* value of its first read, whatever raw attributes are assigned in between:
\* here, a read of a property of the PresionesBase object that follows a read
\* of the same property returns the same value.
C24_DerivadosFijos ==
    [][(/\ presiones_base.lectura.propiedad # "ninguna"
        /\ presiones_base'.lectura.propiedad = presiones_base.lectura.propiedad)
       => presiones_base'.leido = presiones_base.leido]_vars


(***************************************************************************)
(* C25                                                                     *)
(***************************************************************************)
\* The last read of the roof cp object was of its coefficients.
ValoresSprfvLeidos ==
    /\ cubierta_sprfv.estado = "construida"
    /\ cubierta_sprfv.lectura.propiedad = "valores"

\* The roof is duo-pitch and its mid-width is none of 0, h / 2, h, 2 h: the
\* coefficient of the zone that ends at mid-width is repeated.
ZonaPartida(o) == o.tipo_cubierta = "dos aguas" /\ o.ancho \notin distancias_codigo(o)

\* The coefficients the routine of the wind parallel to the ridge gives with
\* the two plan dimensions exchanged, for the number of zones of the result.
ParaleloIntercambiado(o) ==
    LET numero == IF ZonaPartida(o)
                  THEN Len(o.valores.normal) - 1 ELSE Len(o.valores.normal)
    IN cp_cubierta_angulo_menor_diez(o, o.ancho, o.longitud, numero).valor

\* C25: the SPRFV roof coefficients depend on the roof angle alone for their
\* form: below 10 degrees the result for wind normal to the ridge is a
\* sequence per zone made by the routine of the wind parallel to the ridge
\* with the plan dimensions exchanged, from 10 degrees on, 10 included, it is
\* the windward pair and the leeward coefficient; a read of valores never
\* raises the ValueError of the angle guard of the windward and leeward
\* helpers.
C25_DespachoPorAngulo ==
    ValoresSprfvLeidos =>
        LET o == cubierta_sprfv
        IN /\ o.lectura.evaluadas
                \cap {"_cp_cubierta_barlovento", "_cp_cubierta_sotavento"} = {}
           /\ (o.angulo >= 10 =>
                 /\ o.lectura.resultado = "ok"
                 /\ o.valores.forma = "barlovento y sotavento"
                 /\ o.valores.normal = << >>
                 /\ o.valores.negativa = cp_cubierta_barlovento(o).negativa
                 /\ o.valores.positiva = cp_cubierta_barlovento(o).positiva
                 /\ o.valores.sotavento = cp_cubierta_sotavento(o).valor)
           /\ (o.angulo < 10 /\ o.lectura.resultado = "ok" =>
                 /\ o.valores.forma = "zonas"
                 /\ Len(o.valores.normal) >= 1
                 /\ (~ZonaPartida(o) => o.valores.normal = ParaleloIntercambiado(o))
                 /\ (ZonaPartida(o) =>
                       \E k \in 1 .. Len(ParaleloIntercambiado(o)) :
                          o.valores.normal
                            = insertar_repetido(ParaleloIntercambiado(o), k))
                 /\ o.valores.paralelo
                      = cp_cubierta_angulo_menor_diez(o, o.longitud, o.ancho,
                                                      Len(o.valores.paralelo)).valor)

\* The coefficients of a roof of exactly 10 degrees have been read: the
\* windward pair and the leeward coefficient.
C25_Testigo ==
    /\ ValoresSprfvLeidos
    /\ cubierta_sprfv.angulo = 10
    /\ cubierta_sprfv.lectura.resultado = "ok"
    /\ cubierta_sprfv.valores.forma = "barlovento y sotavento"
    /\ cubierta_sprfv.valores.negativa < 0
    /\ cubierta_sprfv.valores.sotavento < 0


(***************************************************************************)
(* C26                                                                     *)
(***************************************************************************)
\* A mono-pitch roof, not an eave, whose reference figure has just been read.
ReferenciaUnAguaLeida ==
    /\ cp_componentes.estado = "construida"
    /\ cp_componentes.lectura.propiedad = "referencia"
    /\ cp_componentes.tipo_cubierta = "un agua"
    /\ ~cp_componentes.es_alero

\* What the read of the reference figure of a mono-pitch roof is stated to
\* give.
ReferenciaUnAguaDeclarada(o) ==
    IF o.angulo > 30 \/ (o.altura_media > 20 /\ o.angulo > 10)
    THEN [resultado |-> "ErrorLineamientos", valor |-> ""]
    ELSE IF o.altura_media > 20 THEN [resultado |-> "ok", valor |-> "Figura 8"]
    ELSE IF o.angulo <= 3 THEN [resultado |-> "ok", valor |-> "Figura 5B"]
    ELSE IF o.angulo <= 10 THEN [resultado |-> "ok", valor |-> "Figura 7A"]
    ELSE [resultado |-> "ok", valor |-> "Figura 7A (cont.)"]

\* C26: for a mono-pitch roof that is not an eave the read of the reference
\* figure raises ErrorLineamientos when the angle is above 30 degrees, or when
\* the mean roof height is above 20 and the angle above 10 degrees; otherwise
\* it returns Figura 5B (angle up to 3), Figura 7A (up to 10) or Figura 7A
\* (cont.) (up to 30) for a low building and Figura 8 for a tall one.
C26_ReferenciaUnAgua ==
    ReferenciaUnAguaLeida =>
        LET o == cp_componentes
            declarada == ReferenciaUnAguaDeclarada(o)
        IN /\ o.lectura.resultado = declarada.resultado
           /\ (declarada.resultado = "ok" =>
                 /\ o.referencia.evaluado
                 /\ o.referencia.valor = declarada.valor)
           /\ (declarada.resultado # "ok" => ~o.referencia.evaluado)


(***************************************************************************)
(* C27                                                                     *)
(***************************************************************************)
\* The zones are contiguous intervals from 0 to the dimension along the wind
\* (in eighths of a metre) with their boundaries among the given ones.
ZonasContiguas(zonas, dimension, limites) ==
    /\ Len(zonas) >= 1
    /\ zonas[1][1] = 0
    /\ zonas[Len(zonas)][2] = dimension
    /\ \A i \in 1 .. Len(zonas) :
         /\ zonas[i][1] < zonas[i][2]
         /\ zonas[i][2] \in limites
    /\ \A i \in 1 .. Len(zonas) - 1 : zonas[i][2] = zonas[i + 1][1]

\* C27: once the coefficients of a roof of less than 10 degrees, of positive
\* width, length and mean roof height, have been read, the read has not
\* raised the ValueError of the number of zones, and for both wind directions
\* the zones are contiguous intervals from 0 to the dimension along the wind,
\* with boundaries among 0, h / 2, h, 2 h and that dimension, and the
\* mid-width for a duo-pitch roof under wind normal to the ridge, and there
\* are as many coefficients as zones.
C27_ZonasCubierta ==
    (ValoresSprfvLeidos /\ cubierta_sprfv.angulo < 10) =>
        LET o == cubierta_sprfv
        IN /\ o.lectura.resultado = "ok"
           /\ o.valores.evaluado
           /\ ZonasContiguas(o.zonas.paralelo, 2 * o.longitud,
                             distancias_codigo(o) \cup {2 * o.longitud})
           /\ ~o.zonas.normal.ninguno
           /\ ZonasContiguas(o.zonas.normal.valor, 2 * o.ancho,
                             distancias_codigo(o) \cup {2 * o.ancho}
                             \cup (IF o.tipo_cubierta = "dos aguas"
                                   THEN {o.ancho} ELSE {}))
           /\ Len(o.valores.paralelo) = Len(o.zonas.paralelo)
           /\ Len(o.valores.normal) = Len(o.zonas.normal.valor)



\* The isolated roof whose valores have been read.
ValoresAisladaLeidos == cubierta_aislada.valores.evaluado

\* The coefficients of a gabled isolated roof of the given angle (in degrees)
\* with the blockage ratio of the roof at hand.
DosAguasEnAngulo(grados) ==
    cpn_dos_aguas([cubierta_aislada EXCEPT !.angulo = Grados(grados)])

\* The maxima of the last column (30 degrees) and of the first column
\* (-20 degrees) of Tabla I.2, by zone.
MaximosEnTreinta ==
    [z \in {"global", "A", "B", "C", "D", "BC", "BD"} |->
       CASE z = "global" -> 9000 [] z = "A" -> 13000 [] z = "B" -> 19000
         [] z = "C" -> 16000 [] z = "D" -> 7000 [] z = "BC" -> 19000
         [] z = "BD" -> 19000]

MaximosEnMenosVeinte ==
    [z \in {"global", "A", "B", "C", "D", "BC", "BD"} |->
       CASE z = "global" -> 7000 [] z = "A" -> 8000 [] z = "B" -> 16000
         [] z = "C" -> 6000 [] z = "D" -> 17000 [] z = "BC" -> 16000
         [] z = "BD" -> 17000]

\* C28: a gabled isolated roof with an angle above 30 or below -20 degrees is
\* constructed without error whenever its blockage ratio is valid, and every
\* coefficient read from it (global and zones A, B, C, D, BC, BD, maximum and
\* minimum) is the one of the table at 30, respectively -20, degrees for the
\* same blockage ratio.
C28_AnguloAcotado ==
    /\ (/\ cubierta_aislada.resultado # "ninguno"
        /\ cubierta_aislada.tipo_cubierta = "dos aguas"
        /\ BloqueoValido(cubierta_aislada)
        /\ (cubierta_aislada.angulo > Grados(30) \/ cubierta_aislada.angulo < Grados(0 - 20)))
       => cubierta_aislada.resultado = "ok"
    /\ (/\ ValoresAisladaLeidos
        /\ cubierta_aislada.tipo_cubierta = "dos aguas"
        /\ cubierta_aislada.angulo > Grados(30))
       => /\ cubierta_aislada.valores.valor = DosAguasEnAngulo(30)
          /\ \A z \in DOMAIN MaximosEnTreinta :
               cubierta_aislada.valores.valor[z].max = MaximosEnTreinta[z]
    /\ (/\ ValoresAisladaLeidos
        /\ cubierta_aislada.tipo_cubierta = "dos aguas"
        /\ cubierta_aislada.angulo < Grados(0 - 20))
       => /\ cubierta_aislada.valores.valor = DosAguasEnAngulo(0 - 20)
          /\ \A z \in DOMAIN MaximosEnMenosVeinte :
               cubierta_aislada.valores.valor[z].max = MaximosEnMenosVeinte[z]

\* A gabled roof at 31.5 degrees with a partial blockage whose coefficients
\* have been read.
C28_Testigo ==
    /\ ValoresAisladaLeidos
    /\ cubierta_aislada.tipo_cubierta = "dos aguas"
    /\ cubierta_aislada.angulo = Grados(31) + 1
    /\ cubierta_aislada.relacion_bloqueo = 4
    /\ cubierta_aislada.valores.valor["BD"].min = 0 - 18400



\* The mask the pressure builders keep when they are made from the building:
\* edificio.alturas == edificio.cubierta.altura_media.
IndicesAlturaMediaEdificio ==
    [i \in 1 .. Len(edificio.alturas.valor) |->
       edificio.alturas.valor[i] = edificio.cubierta.altura_media.valor]

\* C29: once the height array of a building has been computed, the mean roof
\* height of its roof is one of its entries, so selecting the entries equal to
\* the mean roof height and taking the first one finds an entry, whatever the
\* elevation, the eave and ridge heights, the roof type and the custom heights.
C29_AlturaMediaEnAlturas ==
    edificio.alturas.evaluado =>
        /\ edificio.cubierta.altura_media.evaluado
        /\ Contiene(edificio.alturas.valor, edificio.cubierta.altura_media.valor)
        /\ Len(Filtrar(edificio.alturas.valor, IndicesAlturaMediaEdificio)) >= 1
        /\ Filtrar(edificio.alturas.valor, IndicesAlturaMediaEdificio)[1]
             = edificio.cubierta.altura_media.valor

\* A raised building with an eave at 1.5 m and a ridge at 11 m, whose mean roof
\* height of 6.25 m is neither a whole metre nor one of its custom heights nor
\* the eave or the ridge, with its heights computed.
C29_Testigo ==
    /\ edificio.alturas.evaluado
    /\ edificio.elevacion = 2
    /\ edificio.altura_alero = 6
    /\ edificio.altura_cumbrera = 44
    /\ edificio.cubierta.altura_media.valor = 25
    /\ edificio.alturas_personalizadas = Algun(<< 80, 8 >>)
    /\ edificio.alturas.valor = << 2, 6, 8, 25, 44 >>



\* The SPRFV wall builder whose pressures have been read.
ParedesSprfvLeidas ==
    /\ presiones_edificio.clase = "ParedesSprfvMetodoDireccional"
    /\ presiones_edificio.valores.evaluado
    /\ ~presiones_edificio.valores.ninguno

\* The heights whose velocity pressure the pressures of the wall c[2] under
\* the wind direction c[1] are taken at; the heights of a builder are in
\* increasing order, so the ones up to the eave are the first ones.
AlturasDelTramo(o, c) ==
    IF c[1] = "normal" /\ o.tipo_cubierta # "un agua"
    THEN {i \in 1 .. Len(o.alturas) : o.alturas[i] <= o.altura_alero}
    ELSE 1 .. Len(o.alturas)

\* C30: in the SPRFV wall pressures a leeward or side wall has a single pair,
\* taken at the velocity pressure at mean roof height; the windward wall has
\* one pair per height, for the heights up to the eave when the wind is normal
\* to the ridge and the roof is not mono-pitch and for all the heights
\* otherwise, each taken at the velocity pressure of its height; the internal
\* term of every pair is the velocity pressure at mean roof height times GCpi.
C30_TramoPorPared ==
    ParedesSprfvLeidas =>
        LET o == presiones_edificio
            q == presiones_velocidad_edificio(o)
            qh == q[IndiceMedia(o)]
            interna == MulFx(qh, o.gcpi.valor)
        IN \A c \in DOMAIN o.valores.presiones :
             LET p == o.valores.presiones[c]
                 externa(qz) == MulFx(MulFx(qz, o.factores_rafaga[c[1]]), o.cp.valores[c])
             IN IF c[2] = "barlovento"
                THEN /\ DOMAIN p.pos = AlturasDelTramo(o, c)
                     /\ DOMAIN p.neg = AlturasDelTramo(o, c)
                     /\ \A i \in AlturasDelTramo(o, c) :
                          /\ p.pos[i] = externa(q[i]) - interna
                          /\ p.neg[i] = externa(q[i]) + interna
                ELSE /\ p.pos = << externa(qh) - interna >>
                     /\ p.neg = << externa(qh) + interna >>

\* SPRFV walls of a closed gabled building with three heights, the eave at the
\* second and the mean roof height at the third: the windward wall has two
\* pairs for wind normal to the ridge and three for wind parallel to it, the
\* leeward wall one, and the windward pressure at the first height is lower
\* than the one at the third.
C30_Testigo ==
    /\ ParedesSprfvLeidas
    /\ presiones_edificio.tipo_cubierta = "dos aguas"
    /\ presiones_edificio.cerramiento = "cerrado"
    /\ presiones_edificio.alturas = << 10, 20, 30 >>
    /\ presiones_edificio.altura_alero = 20
    /\ presiones_edificio.altura_media = 30
    /\ Len(presiones_edificio.valores.presiones[<< "normal", "barlovento" >>].pos) = 2
    /\ LET p == presiones_edificio.valores.presiones[<< "paralelo", "barlovento" >>]
       IN Len(p.pos) = 3 /\ p.pos[1] < p.pos[3]
    /\ Len(presiones_edificio.valores.presiones[<< "normal", "sotavento" >>].pos) = 1

====
